---- MODULE Spec2Model ----
(***************************************************************************)
(* bintest: a shim executable relays one invocation of a proxied binary    *)
(* to the test process over loopback HTTP.  The module has two parts:      *)
(*                                                                         *)
(*   Spec      the per-Call protocol between the shim (Client.Run), the    *)
(*             server's handlers (handleNewCall, callHandler.ServeHTTP,    *)
(*             copyPipeWithFlush) and test code holding the Call           *)
(*             (Stdout/Stderr writes, Stdin reads, Exit).                  *)
(*   MockSpec  the Mock facade: Expect, Before, IgnoreUnexpected, the      *)
(*             dispatcher's invoke and Check.                              *)
(*                                                                         *)
(* Further specifications cover the server singleton and Proxy.Close       *)
(* (ServerSpec, FairCloseSpec, LifeSpec), Calls of several Proxies         *)
(* (CrossSpec), the proxy registry (RegistrySpec), Expectation.Check       *)
(* (CheckSpec), the Expectation builders (BuilderSpec), the middleware     *)
(* chain (BeforeSpec), Call.Passthrough (PassSpec), the compile cache     *)
(* (CompileSpec), Mock.invoke step by step beside Mock.Check               *)
(* (DispatchSpec), and Arguments.Match and env.Match (MatchSpec).          *)
(***************************************************************************)
EXTENDS Integers, Sequences, FiniteSets, TLC

(***************************************************************************)
(* Bounds                                                                  *)
(***************************************************************************)
\* bytes the system-under-test may feed to the shim's stdin
MaxStdin == 3
\* bytes test code may pass to Write on the output streams of a Call
MaxOut == 2
\* longest single Write test code issues
MaxChunk == 2
\* socket buffering between the shim's stdin POST and the server (bytes)
NetCap == 1
\* Exit invocations test code makes on one Call
MaxExitCalls == 2
\* Expectations declared on one Mock
MaxExpect == 2
\* Calls dispatched to one Mock
MaxInvoke == 2
\* largest count given to MinTimes / MaxTimes
MaxCount == 1
\* Before middleware registered on one Mock
MaxBefore == 1
\* Before middleware registered on one Mock by chained calls
MaxChain == 2
\* scaled size of the copy buffer of copyPipeWithFlush / io.Copy
BufLen == 1
\* Calls (shim processes, each with its own pid) of one Proxy
MaxCalls == 2
\* Server instances created in one run
MaxServers == 2
\* Proxy.Close invocations
MaxClose == 2
\* Mocks, each with its own Proxy
MaxProxies == 2
\* Calls of each of these Proxies
MaxCross == 2
\* Proxies that register with the Server
MaxReg == 2
\* largest totalCalls of an Expectation handed to Check on its own
MaxTotal == 2
\* reaction setters called on one Expectation
MaxSetters == 3
\* Calls matched to that Expectation
MaxReact == 2
\* Calls passed through to a local command, one after the other
MaxPass == 3
\* goroutines that produce shims at the same time
MaxCompilers == 2
\* shim productions in all
MaxProductions == 3
\* distinct cache entries, and distinct destination paths
MaxKeys == 2
\* concurrent invocations of one mocked binary
MaxDCalls == 2
\* longest expected and actual argument vector
MaxArgs == 2
\* most entries of an environment
MaxEnv == 2
\* most required entries of one env.Match
MaxRequired == 1

Streams == {"stdout", "stderr"}
Pipes == {"stdout", "stderr", "stdin"}
Threads == {1, 2}
\* exit codes test code passes to Exit (24: TestProxyWithNonZeroExitCode)
ExitCodes == {0, 24}
NoCode == -1

Min(a, b) == IF a < b THEN a ELSE b

\* the n-th byte written to a stream; stdout and stderr bytes are disjoint
ByteOf(s, n) == IF s = "stdout" THEN n ELSE 100 + n
Prefix(q, n) == SubSeq(q, 1, n)
Suffix(q, n) == SubSeq(q, n + 1, Len(q))

(***************************************************************************)
(* JSON integers on the wire: the exitcode handler writes the code with    *)
(* json.Encoder.Encode (decimal digits and a newline) and the shim parses  *)
(* it back with json.Decoder.Decode.                                       *)
(***************************************************************************)
DigitChars == <<"0", "1", "2", "3", "4", "5", "6", "7", "8", "9">>
DigitVal(c) == (CHOOSE i \in 1..10 : DigitChars[i] = c) - 1

RECURSIVE Itoa(_)
Itoa(n) == IF n < 10 THEN <<DigitChars[n + 1]>>
           ELSE Itoa(n \div 10) \o <<DigitChars[(n % 10) + 1]>>

RECURSIVE Atoi(_)
Atoi(q) == IF q = <<>> THEN 0
           ELSE Atoi(Prefix(q, Len(q) - 1)) * 10 + DigitVal(q[Len(q)])

EncodeInt(n) == (IF n < 0 THEN <<"-">> \o Itoa(0 - n) ELSE Itoa(n)) \o <<"\n">>

\* a decoder that stops after the first digit
DecodeFirstDigit(q) ==
    IF q = <<>> \/ q[1] = "\n" THEN 0 ELSE DigitVal(q[1])

DecodeInt(q) ==
    LET body == IF q # <<>> /\ q[Len(q)] = "\n" THEN Prefix(q, Len(q) - 1) ELSE q
    IN  IF body # <<>> /\ body[1] = "-" THEN 0 - Atoi(Suffix(body, 1)) ELSE Atoi(body)

(***************************************************************************)
(* State of one Call's protocol                                            *)
(***************************************************************************)
VARIABLES
    \* shim process (Client.Run)
    shimPc,       \* "init","posted","wait","exitreq","exited"
    hasStdin,     \* isStdinReadable()
    osStdin,      \* bytes of the shim's own stdin not yet copied
    wg,           \* sync.WaitGroup counter
    stdinGo,      \* stdin goroutine: "none","spawned","copying","done"
    getPc,        \* per output stream: "idle","requested","eof"
    sutOut,       \* per output stream: bytes the system-under-test has seen
    exitStatus,   \* value returned by Run
    \* the wire
    netIn,        \* POST /stdin body bytes in flight
    resp,         \* per output stream: flushed response bytes in flight
    respExit,     \* flushed body of the exitcode response
    \* server
    newH,         \* handleNewCall: "idle","dispatch","done"
    callStored,   \* callHandlers holds the handler of this pid
    streamH,      \* stdout/stderr handlers: "idle" (not returned yet), "done"
    inH,          \* stdin handler: "idle" (not returned yet), "done"
    exitH,        \* exitcode handler: "idle","gotcode","flushed","done"
    hCode,        \* the exitcode handler's local exitCode
    pipe,         \* io.Pipe per stream: pending Write, writer closed, reader closed
    \* the Call and the test code holding it
    done,         \* Call.done, the atomic exit guard
    tpc,          \* per goroutine of test code
    tcode,        \* per goroutine: the code it passed to Exit
    wstream,      \* stream goroutine 1 is writing to
    nOut,         \* per output stream: bytes test code has passed to Write
    \* history
    wrote,        \* per output stream: bytes a Write handed over to the reader
    readIn,       \* bytes test code has read from Call.Stdin
    sentStdin,    \* bytes the shim has copied from its stdin
    exitCalls,    \* number of Exit invocations
    exitCodeSent, \* values sent on Call.exitCodeCh
    closes,       \* number of times Exit closed the two writers
    \* the dispatcher's handling of an Expectation with a stdin matcher
    wrapped,      \* Call.Stdin was replaced by the in-memory reader
    readStdin,    \* Expectation.readStdin
    memStdin,     \* bytes left in the in-memory reader
    handlerIn     \* bytes the reaction has read from Call.Stdin

shimVars == <<shimPc, hasStdin, osStdin, wg, stdinGo, getPc, sutOut, exitStatus>>
wireVars == <<netIn, resp, respExit>>
serverVars == <<newH, callStored, streamH, inH, exitH, hCode, pipe>>
testVars == <<done, tpc, tcode, wstream, nOut>>
histVars == <<wrote, readIn, sentStdin, exitCalls, exitCodeSent, closes>>
drainVars == <<wrapped, readStdin, memStdin, handlerIn>>
callVars == <<shimVars, wireVars, serverVars, testVars, histVars, drainVars>>

NewPipe == [pending |-> <<>>, wclosed |-> FALSE, rclosed |-> FALSE]

CallInit ==
    /\ shimPc = "init"
    /\ hasStdin = FALSE
    /\ osStdin = <<>>
    /\ wg = 0
    /\ stdinGo = "none"
    /\ getPc = [s \in Streams |-> "idle"]
    /\ sutOut = [s \in Streams |-> <<>>]
    /\ exitStatus = NoCode
    /\ netIn = <<>>
    /\ resp = [s \in Streams |-> <<>>]
    /\ respExit = <<>>
    /\ newH = "idle"
    /\ callStored = FALSE
    /\ streamH = [s \in Streams |-> "idle"]
    /\ inH = "idle"
    /\ exitH = "idle"
    /\ hCode = NoCode
    /\ pipe = [s \in Pipes |-> NewPipe]
    /\ done = 0
    /\ tpc = [t \in Threads |-> "idle"]
    /\ tcode = [t \in Threads |-> NoCode]
    /\ wstream = "stdout"
    /\ nOut = [s \in Streams |-> 0]
    /\ wrote = [s \in Streams |-> <<>>]
    /\ readIn = <<>>
    /\ sentStdin = <<>>
    /\ exitCalls = 0
    /\ exitCodeSent = <<>>
    /\ closes = 0
    /\ wrapped = FALSE
    /\ readStdin = <<>>
    /\ memStdin = <<>>
    /\ handlerIn = <<>>

(***************************************************************************)
(* State of the Mock facade (MockSpec); constant under Spec                *)
(***************************************************************************)
VARIABLES
    expected,         \* Mock.expected: the ExpectationSet, in declaration order
    invocations,      \* Mock.invocations
    ignoreUnexpected, \* Mock.ignoreUnexpected
    before,           \* Mock.before: the middleware, each by its verdict
    lastCall,         \* the Call dispatched last: its argv[1:], output, Exit code
    checked           \* outcome of a Check made just now, else NoCheck

mockVars == <<expected, invocations, ignoreUnexpected, before, lastCall, checked>>

(***************************************************************************)
(* State of the server singleton, one Proxy and its Calls (LifeSpec);      *)
(* constant under Spec and MockSpec                                        *)
(***************************************************************************)
VARIABLES
    serverInstance, \* the package variable: 0 for nil, else the instance
    created,        \* number of Server instances created so far
    listening,      \* instances whose Listener is open
    proxies,        \* Server.proxies of the newest instance (paths)
    callHandlers,   \* Server.callHandlers of the newest instance (pids)
    chClosed,       \* Proxy.Ch has been closed
    proxyPc,        \* the Proxy: "none","open","closing","closed"
    closeCalls,     \* number of Proxy.Close invocations
    tempDir,        \* the Proxy's temp directory exists
    dispPc,         \* dispatcher goroutine: "none","idle","invoking","terminated"
    dispCall,       \* the pid the dispatcher is invoking, else 0
    hNew,           \* per pid, its handleNewCall: "none","stored","sending",
                    \* "delivered","panicked"
    sendq,          \* handlers blocked in the send on Proxy.Ch, in order
    hStreams,       \* per pid, its stdout/stderr handlers: "none","blocked","done"
    hExit,          \* per pid, its exitcode handler: "none","blocked","done"
    writers,        \* per pid, the Stdout/Stderr writers: "open","closed"
    exitPc,         \* per pid, Call.Exit: "none","sending","acked"
    storeOrder,     \* pids in the order of callHandlers.Store
    recvOrder,      \* pids in the order the dispatcher received them
    last            \* the outcome of the last request or lifecycle call

lifeVars == <<serverInstance, created, listening, proxies, callHandlers, chClosed,
              proxyPc, closeCalls, tempDir, dispPc, dispCall, hNew, sendq, hStreams,
              hExit, writers, exitPc, storeOrder, recvOrder, last>>

(***************************************************************************)
(* State of two Proxies with their own channels and dispatchers            *)
(* (CrossSpec); constant under the other specifications                    *)
(***************************************************************************)
VARIABLES
    xMode,   \* per Proxy, "none" before NewMock, else what its reactions do:
             \* "exits", "hangs" (never call Exit), "stuck" (Exit never served)
    xCall,   \* per Proxy and Call: "none","sending","invoking","exiting","done"
    xq,      \* per channel, the Calls whose handlers are blocked in the send
    xBusy    \* per channel, the Call its dispatcher is invoking, else <<>>

crossVars == <<xMode, xCall, xq, xBusy>>

(***************************************************************************)
(* State of the registry of the Server: proxies and aliases (RegistrySpec) *)
(***************************************************************************)
VARIABLES
    rProxies,  \* Server.proxies: per path the Proxy stored there, else 0
    rAliases,  \* Server.aliases: per path the path it is an alias of, else ""
    rPc,       \* per Proxy: "none", "stored" (registerProxy after its Store),
               \* "registered", "deleted" (deregisterProxy after its Delete),
               \* "gone"
    rPath,     \* per Proxy its Path
    lk         \* the lookupProxy in progress or finished last

regVars == <<rProxies, rAliases, rPc, rPath, lk>>

(***************************************************************************)
(* One Expectation.Check on an Expectation of any content (CheckSpec)      *)
(***************************************************************************)
VARIABLES
    probe    \* the Expectation checked last and what its Check gave

probeVars == <<probe>>

(***************************************************************************)
(* One Expectation with its builder chain and its reactions (BuilderSpec)  *)
(***************************************************************************)
VARIABLES
    mPass,    \* Mock.passthroughPath
    ex,       \* the Expectation: passthroughPath, callFunc (set or not),
              \* exitCode, writeStdout, writeStderr
    bLast,    \* the reaction setter called last on it
    bSet,     \* number of setters called on it
    bHist,    \* what was configured: all bytes and the exit code given, and
              \* those given before the latest passthrough or handler
    bReacts   \* the reactions of invoke to the Calls matched to it

builderVars == <<mPass, ex, bLast, bSet, bHist, bReacts>>

(***************************************************************************)
(* One Call passed through to a local command (PassSpec)                   *)
(***************************************************************************)
VARIABLES
    ptPc,       \* Call.passthrough: "idle","start","wait","done"
    ptTimeout,  \* called through PassthroughWithTimeout
    ptDeadline, \* the deadline of the context has elapsed
    ptChild,    \* the child: "none","running","exited","signalled","killed"
    ptStatus,   \* the exit status of a child that exited
    ptCopied,   \* the child's output has been copied to the Call
    ptExits,    \* the codes Exit was called with
    ptN         \* Calls passed through so far

passVars == <<ptPc, ptTimeout, ptDeadline, ptChild, ptStatus, ptCopied, ptExits, ptN>>

(***************************************************************************)
(* The compile cache and the published destinations (CompileSpec)          *)
(***************************************************************************)
VARIABLES
    cLock,       \* serverLock as compileClient sees it: the holder, or 0
    cPc,         \* per goroutine: "idle","check","compile","symlink","rename"
    cKey,        \* per goroutine: the cache entry of its vars
    cDest,       \* per goroutine: its destination path
    cacheWrites, \* per cache entry: how often its file was written
    temps,       \* per goroutine: the target of its temporary symlink, or 0
    links,       \* per destination: the cache entry it points to, or 0
    lateWrite,   \* a cache file was written while a destination pointed to it
    cN           \* productions begun

compileVars == <<cLock, cPc, cKey, cDest, cacheWrites, temps, links, lateWrite, cN>>

(***************************************************************************)
(* One Mock, its dispatcher and a concurrent Check, step by step           *)
(* (DispatchSpec)                                                          *)
(***************************************************************************)
VARIABLES
    dPc,       \* per Call, its place in Mock.invoke: "none","queued","before",
               \* "match","stdin","react","count","append","done","panicked"
    dMatched,  \* per Call: result.Match() found the Expectation
    dExits,    \* per Call: the Exit calls the dispatcher made
    dTotal,    \* expected.totalCalls of the Mock's one Expectation
    dInv,      \* m.invocations
    shimGone,  \* Calls whose shim the system-under-test has seen exit
    chkPc,     \* Mock.Check: "none","waiting" (in m.Lock()),"done"
    chkAfter,  \* the Calls in shimGone when Check was called
    chkSnap    \* what Check read: totalCalls and invocations

dispatchVars == <<dPc, dMatched, dExits, dTotal, dInv, shimGone, chkPc, chkAfter, chkSnap>>

(***************************************************************************)
(* The last call of Arguments.Match or env.Match (MatchSpec)               *)
(***************************************************************************)
VARIABLES
    mres   \* the function called, its two inputs and its result

matchVars == <<mres>>

restVars == <<crossVars, regVars, probeVars, builderVars, passVars, compileVars, dispatchVars, matchVars>>

\* what the actions of one part leave alone: the state of all other parts
outsideCross == <<callVars, mockVars, lifeVars, regVars, probeVars, builderVars, passVars, compileVars, dispatchVars, matchVars>>
outsideRegistry == <<callVars, mockVars, lifeVars, crossVars, probeVars, builderVars, passVars, compileVars, dispatchVars, matchVars>>
outsideProbe == <<callVars, mockVars, lifeVars, crossVars, regVars, builderVars, passVars, compileVars, dispatchVars, matchVars>>
outsideBuilder == <<callVars, mockVars, lifeVars, crossVars, regVars, probeVars, passVars, compileVars, dispatchVars, matchVars>>
outsidePass == <<callVars, mockVars, lifeVars, crossVars, regVars, probeVars, builderVars, compileVars, dispatchVars, matchVars>>
outsideCompile == <<callVars, mockVars, lifeVars, crossVars, regVars, probeVars, builderVars, passVars, dispatchVars, matchVars>>
outsideDispatch == <<callVars, mockVars, lifeVars, crossVars, regVars, probeVars, builderVars, passVars, compileVars, matchVars>>
outsideMatch == <<callVars, mockVars, lifeVars, crossVars, regVars, probeVars, builderVars, passVars, compileVars, dispatchVars>>

vars == <<callVars, mockVars, lifeVars, restVars>>

(***************************************************************************)
(* The shim: Client.Run                                                    *)
(***************************************************************************)
\* The system-under-test starts the shim, which posts /calls/new.
ShimStart(stdin, readable) ==
    /\ shimPc = "init"
    /\ shimPc' = "posted"
    /\ hasStdin' = readable
    /\ osStdin' = IF readable THEN stdin ELSE <<>>
    /\ UNCHANGED <<wg, stdinGo, getPc, sutOut, exitStatus>>
    /\ UNCHANGED <<wireVars, serverVars, testVars, histVars, mockVars, drainVars, lifeVars, restVars>>

\* /calls/new was answered: add the two output streams to the WaitGroup and
\* start the stdin goroutine and the two getStream goroutines, which GET
\* /calls/{pid}/stdout and /stderr.
ShimSpawn ==
    /\ shimPc = "posted"
    /\ newH = "done"
    /\ shimPc' = "wait"
    /\ wg' = 2
    /\ stdinGo' = IF hasStdin THEN "spawned" ELSE "none"
    /\ getPc' = [s \in Streams |-> "requested"]
    /\ UNCHANGED <<hasStdin, osStdin, sutOut, exitStatus>>
    /\ UNCHANGED <<wireVars, serverVars, testVars, histVars, mockVars, drainVars, lifeVars, restVars>>

\* The stdin goroutine adds itself to the WaitGroup and posts /stdin.
StdinGoAdd ==
    /\ stdinGo = "spawned"
    /\ stdinGo' = "copying"
    /\ wg' = wg + 1
    /\ UNCHANGED <<shimPc, hasStdin, osStdin, getPc, sutOut, exitStatus>>
    /\ UNCHANGED <<wireVars, serverVars, testVars, histVars, mockVars, drainVars, lifeVars, restVars>>

\* io.Copy(w, os.Stdin): bytes leave the shim as far as the socket takes them.
StdinGoCopy ==
    /\ stdinGo = "copying"
    /\ osStdin # <<>>
    /\ Len(netIn) < NetCap
    /\ LET n == Min(Len(osStdin), NetCap - Len(netIn))
       IN  /\ netIn' = netIn \o Prefix(osStdin, n)
           /\ sentStdin' = sentStdin \o Prefix(osStdin, n)
           /\ osStdin' = Suffix(osStdin, n)
    /\ UNCHANGED <<shimPc, hasStdin, wg, stdinGo, getPc, sutOut, exitStatus>>
    /\ UNCHANGED <<resp, respExit, serverVars, testVars, mockVars, drainVars, lifeVars, restVars>>
    /\ UNCHANGED <<wrote, readIn, exitCalls, exitCodeSent, closes>>

\* The shim's stdin is exhausted: close the request body, wg.Done().
StdinGoDone ==
    /\ stdinGo = "copying"
    /\ osStdin = <<>>
    /\ stdinGo' = "done"
    /\ wg' = wg - 1
    /\ UNCHANGED <<shimPc, hasStdin, osStdin, getPc, sutOut, exitStatus>>
    /\ UNCHANGED <<wireVars, serverVars, testVars, histVars, mockVars, drainVars, lifeVars, restVars>>

\* io.Copy(w, resp.Body): response bytes reach the system-under-test.
ShimCopy(s) ==
    /\ getPc[s] = "requested"
    /\ resp[s] # <<>>
    /\ sutOut' = [sutOut EXCEPT ![s] = @ \o resp[s]]
    /\ resp' = [resp EXCEPT ![s] = <<>>]
    /\ UNCHANGED <<shimPc, hasStdin, osStdin, wg, stdinGo, getPc, exitStatus>>
    /\ UNCHANGED <<netIn, respExit, serverVars, testVars, histVars, mockVars, drainVars, lifeVars, restVars>>

\* The response body ended: wg.Done().
ShimStreamEof(s) ==
    /\ getPc[s] = "requested"
    /\ resp[s] = <<>>
    /\ streamH[s] = "done"
    /\ getPc' = [getPc EXCEPT ![s] = "eof"]
    /\ wg' = wg - 1
    /\ UNCHANGED <<shimPc, hasStdin, osStdin, stdinGo, sutOut, exitStatus>>
    /\ UNCHANGED <<wireVars, serverVars, testVars, histVars, mockVars, drainVars, lifeVars, restVars>>

\* a shim that does not wait for its copy goroutines
WaitSkipped == TRUE

\* wg.Wait() returns once the counter is zero
WaitReturns == wg = 0

\* wg.Wait() has returned; GET /calls/{pid}/exitcode.
ShimWaitDone ==
    /\ shimPc = "wait"
    /\ WaitReturns
    /\ shimPc' = "exitreq"
    /\ UNCHANGED <<hasStdin, osStdin, wg, stdinGo, getPc, sutOut, exitStatus>>
    /\ UNCHANGED <<wireVars, serverVars, testVars, histVars, mockVars, drainVars, lifeVars, restVars>>

\* The exit code was decoded: Run returns it and the shim exits with it.
ShimExit ==
    /\ shimPc = "exitreq"
    /\ respExit # <<>>
    /\ exitStatus' = DecodeInt(respExit)
    /\ shimPc' = "exited"
    /\ UNCHANGED <<hasStdin, osStdin, wg, stdinGo, getPc, sutOut>>
    /\ UNCHANGED <<wireVars, serverVars, testVars, histVars, mockVars, drainVars, lifeVars, restVars>>

(***************************************************************************)
(* The server: handleNewCall, Server.ServeHTTP, callHandler.ServeHTTP      *)
(***************************************************************************)
\* a handleNewCall that leaves the stdin writer open
StdinLeftOpen == FALSE

\* if !req.HasStdin { inW.Close() }
StdinClosedAtNew == ~hasStdin

\* a handleNewCall that stores the handler after it has delivered the Call
HandleNewCallStoresLate ==
    /\ shimPc = "posted"
    /\ newH = "idle"
    /\ pipe' = [s \in Pipes |->
                  IF s = "stdin" THEN [NewPipe EXCEPT !.wclosed = StdinClosedAtNew]
                  ELSE NewPipe]
    /\ newH' = "dispatch"
    /\ UNCHANGED <<callStored, streamH, inH, exitH, hCode>>
    /\ UNCHANGED <<shimVars, wireVars, testVars, histVars, mockVars, drainVars, lifeVars, restVars>>

\* handleNewCall up to the delivery of the Call: create the three pipes and
\* the Call, close the stdin writer when no stdin will come, store the handler.
HandleNewCall ==
    /\ shimPc = "posted"
    /\ newH = "idle"
    /\ pipe' = [s \in Pipes |->
                  IF s = "stdin" THEN [NewPipe EXCEPT !.wclosed = StdinClosedAtNew]
                  ELSE NewPipe]
    /\ callStored' = TRUE
    /\ newH' = "dispatch"
    /\ UNCHANGED <<streamH, inH, exitH, hCode>>
    /\ UNCHANGED <<shimVars, wireVars, testVars, histVars, mockVars, drainVars, lifeVars, restVars>>

\* proxy.Ch <- call meets the receive of test code; the handler returns and
\* /calls/new is answered.  The receiver is test code that holds the Call in
\* two goroutines, or (stdinMatcher) the dispatcher of a Mock whose matched
\* Expectation has a stdin matcher and which starts with io.ReadAll.
Dispatch(stdinMatcher) ==
    /\ newH = "dispatch"
    /\ \A t \in Threads : tpc[t] = "idle"
    /\ newH' = "done"
    /\ tpc' = IF stdinMatcher
              THEN [t \in Threads |-> IF t = 1 THEN "draining" ELSE "idle"]
              ELSE [t \in Threads |-> "ready"]
    /\ UNCHANGED <<callStored, streamH, inH, exitH, hCode, pipe>>
    /\ UNCHANGED <<done, tcode, wstream, nOut>>
    /\ UNCHANGED <<shimVars, wireVars, histVars, mockVars, drainVars, lifeVars, restVars>>

\* Server.ServeHTTP has found the handler of the pid (callHandlers.Load) and
\* callHandler.ServeHTTP runs its stdout or stderr case.
StreamServed(s) ==
    /\ getPc[s] = "requested"
    /\ callStored
    /\ streamH[s] # "done"

\* copyPipeWithFlush, one round with data: Read up to a buffer from the
\* pipe, Write it to the response, Flush.
CopyStep(s) ==
    /\ StreamServed(s)
    /\ ~pipe[s].wclosed
    /\ pipe[s].pending # <<>>
    /\ LET n == Min(BufLen, Len(pipe[s].pending))
           data == Prefix(pipe[s].pending, n)
       IN  /\ pipe' = [pipe EXCEPT ![s].pending = Suffix(@, n)]
           /\ resp' = [resp EXCEPT ![s] = @ \o data]
           /\ wrote' = [wrote EXCEPT ![s] = @ \o data]
    /\ UNCHANGED <<newH, callStored, streamH, inH, exitH, hCode>>
    /\ UNCHANGED <<netIn, respExit, shimVars, testVars, mockVars, drainVars, lifeVars, restVars>>
    /\ UNCHANGED <<readIn, sentStdin, exitCalls, exitCodeSent, closes>>

\* copyPipeWithFlush, last round: Read fails with EOF, close the reader,
\* return (which ends the response).
CopyEof(s) ==
    /\ StreamServed(s)
    /\ pipe[s].wclosed
    /\ pipe' = [pipe EXCEPT ![s].rclosed = TRUE]
    /\ streamH' = [streamH EXCEPT ![s] = "done"]
    /\ UNCHANGED <<newH, callStored, inH, exitH, hCode>>
    /\ UNCHANGED <<shimVars, wireVars, testVars, histVars, mockVars, drainVars, lifeVars, restVars>>

\* Server.ServeHTTP has found the handler and callHandler.ServeHTTP runs
\* its stdin case.
StdinServed ==
    /\ stdinGo \in {"copying", "done"}
    /\ callStored
    /\ inH # "done"

\* io.Copy(ch.stdin, r.Body), one round: read from the body and start a
\* Write on the stdin pipe, which lasts until test code has read it all.
InHCopy ==
    /\ StdinServed
    /\ pipe["stdin"].pending = <<>>
    /\ netIn # <<>>
    /\ LET n == Min(BufLen, Len(netIn))
       IN  /\ pipe' = [pipe EXCEPT !["stdin"].pending = Prefix(netIn, n)]
           /\ netIn' = Suffix(netIn, n)
    /\ UNCHANGED <<newH, callStored, streamH, inH, exitH, hCode>>
    /\ UNCHANGED <<resp, respExit, shimVars, testVars, histVars, mockVars, drainVars, lifeVars, restVars>>

\* The body ended: close the body and the stdin pipe writer.
InHEof ==
    /\ StdinServed
    /\ pipe["stdin"].pending = <<>>
    /\ netIn = <<>>
    /\ stdinGo = "done"
    /\ pipe' = [pipe EXCEPT !["stdin"].wclosed = TRUE]
    /\ inH' = "done"
    /\ UNCHANGED <<newH, callStored, streamH, exitH, hCode>>
    /\ UNCHANGED <<shimVars, wireVars, testVars, histVars, mockVars, drainVars, lifeVars, restVars>>

\* Server.ServeHTTP has found the handler and callHandler.ServeHTTP runs
\* its exitcode case, which starts by receiving from call.exitCodeCh.
ExitServed ==
    /\ shimPc = "exitreq"
    /\ callStored
    /\ exitH = "idle"

\* c.exitCodeCh <- code in Exit meets <-ch.call.exitCodeCh in the handler.
ExitCodeCh(t) ==
    /\ tpc[t] = "exit_send"
    /\ ExitServed
    /\ hCode' = tcode[t]
    /\ exitH' = "gotcode"
    /\ tpc' = [tpc EXCEPT ![t] = "exit_wait"]
    /\ exitCodeSent' = Append(exitCodeSent, tcode[t])
    /\ UNCHANGED <<newH, callStored, streamH, inH, pipe>>
    /\ UNCHANGED <<done, tcode, wstream, nOut>>
    /\ UNCHANGED <<wrote, readIn, sentStdin, exitCalls, closes>>
    /\ UNCHANGED <<shimVars, wireVars, mockVars, drainVars, lifeVars, restVars>>

\* The handler encodes the exit code into the response and flushes it.
ExitHFlush ==
    /\ exitH = "gotcode"
    /\ respExit' = EncodeInt(hCode)
    /\ exitH' = "flushed"
    /\ UNCHANGED <<newH, callStored, streamH, inH, hCode, pipe>>
    /\ UNCHANGED <<netIn, resp, shimVars, testVars, histVars, mockVars, drainVars, lifeVars, restVars>>

\* a handler that acknowledges before it has encoded and flushed
AckBeforeFlush == exitH \in {"gotcode", "flushed"}

\* the handler reaches its send on doneCh after Encode and Flush
AckReady == exitH = "flushed"

\* ch.call.doneCh <- struct{}{} in the handler meets <-c.doneCh in Exit,
\* which returns.
DoneCh(t) ==
    /\ AckReady
    /\ tpc[t] = "exit_wait"
    /\ exitH' = "done"
    /\ tpc' = [tpc EXCEPT ![t] = "returned"]
    /\ UNCHANGED <<newH, callStored, streamH, inH, hCode, pipe>>
    /\ UNCHANGED <<done, tcode, wstream, nOut>>
    /\ UNCHANGED <<shimVars, wireVars, histVars, mockVars, drainVars, lifeVars, restVars>>

(***************************************************************************)
(* Test code holding the Call: Call.Exit and the three stream endpoints    *)
(***************************************************************************)
\* an Exit without the guard
ExitUnguarded == TRUE

\* atomic.CompareAndSwapUint32(&c.done, 0, 1)
ExitGuard == done = 0

\* Exit as far as it runs without blocking: take the guard or panic, close
\* the stderr and stdout writers (a Write in progress is abandoned), then
\* block sending the code on exitCodeCh.
CallExit(t, code) ==
    /\ tpc[t] \in {"ready", "returned"}
    /\ exitCalls < MaxExitCalls
    /\ exitCalls' = exitCalls + 1
    /\ IF ExitGuard
       THEN /\ done' = 1
            /\ pipe' = [s \in Pipes |->
                          IF s \in Streams
                          THEN [pipe[s] EXCEPT !.wclosed = TRUE, !.pending = <<>>]
                          ELSE pipe[s]]
            /\ closes' = closes + 1
            /\ tcode' = [tcode EXCEPT ![t] = code]
            /\ tpc' = [tpc EXCEPT ![t] = "exit_send"]
       ELSE /\ tpc' = [tpc EXCEPT ![t] = "panicked"]
            /\ UNCHANGED <<done, pipe, closes, tcode>>
    /\ UNCHANGED <<newH, callStored, streamH, inH, exitH, hCode>>
    /\ UNCHANGED <<wstream, nOut, wrote, readIn, sentStdin, exitCodeSent>>
    /\ UNCHANGED <<shimVars, wireVars, mockVars, drainVars, lifeVars, restVars>>

\* call.Stdout.Write / call.Stderr.Write of the next k bytes: on a closed
\* writer it fails at once, otherwise it blocks until a reader took them.
TestWrite(s, k) ==
    /\ tpc[1] \in {"ready", "returned"}
    /\ nOut["stdout"] + nOut["stderr"] + k <= MaxOut
    /\ nOut' = [nOut EXCEPT ![s] = @ + k]
    /\ IF pipe[s].wclosed
       THEN UNCHANGED <<pipe, tpc, wstream>>
       ELSE /\ pipe' = [pipe EXCEPT ![s].pending = [i \in 1..k |-> ByteOf(s, nOut[s] + i)]]
            /\ tpc' = [tpc EXCEPT ![1] = "writing"]
            /\ wstream' = s
    /\ UNCHANGED <<newH, callStored, streamH, inH, exitH, hCode>>
    /\ UNCHANGED <<done, tcode>>
    /\ UNCHANGED <<shimVars, wireVars, histVars, mockVars, drainVars, lifeVars, restVars>>

\* The Write returns: all its bytes were read, or the writer was closed.
TestWriteDone ==
    /\ tpc[1] = "writing"
    /\ pipe[wstream].pending = <<>>
    /\ tpc' = [tpc EXCEPT ![1] = "ready"]
    /\ UNCHANGED <<done, tcode, wstream, nOut>>
    /\ UNCHANGED <<shimVars, wireVars, serverVars, histVars, mockVars, drainVars, lifeVars, restVars>>

\* call.Stdin.Read takes what the stdin handler is writing.
TestRead ==
    /\ tpc[1] = "ready"
    /\ ~wrapped
    /\ pipe["stdin"].pending # <<>>
    /\ readIn' = readIn \o pipe["stdin"].pending
    /\ pipe' = [pipe EXCEPT !["stdin"].pending = <<>>]
    /\ UNCHANGED <<newH, callStored, streamH, inH, exitH, hCode>>
    /\ UNCHANGED <<wrote, sentStdin, exitCalls, exitCodeSent, closes>>
    /\ UNCHANGED <<shimVars, wireVars, testVars, mockVars, drainVars, lifeVars, restVars>>

(***************************************************************************)
(* Mock.invoke for an Expectation with a stdin matcher                     *)
(***************************************************************************)
\* io.ReadAll(call.Stdin), one Read that returns data
DrainRead ==
    /\ tpc[1] = "draining"
    /\ pipe["stdin"].pending # <<>>
    /\ readIn' = readIn \o pipe["stdin"].pending
    /\ pipe' = [pipe EXCEPT !["stdin"].pending = <<>>]
    /\ UNCHANGED <<newH, callStored, streamH, inH, exitH, hCode>>
    /\ UNCHANGED <<wrote, sentStdin, exitCalls, exitCodeSent, closes>>
    /\ UNCHANGED <<shimVars, wireVars, testVars, mockVars, drainVars, lifeVars, restVars>>

\* an io.ReadAll that gives up at the first Read without data
DrainStopsEarly == pipe["stdin"].pending = <<>>

\* io.ReadAll returns: the Read met EOF, the writer is closed and nothing is
\* pending
DrainComplete == pipe["stdin"].pending = <<>> /\ pipe["stdin"].wclosed

\* buf is copied to expected.readStdin and call.Stdin becomes
\* io.NopCloser(bytes.NewReader(buf)); the reaction starts.
DrainEof ==
    /\ tpc[1] = "draining"
    /\ DrainComplete
    /\ readStdin' = readIn
    /\ memStdin' = readIn
    /\ wrapped' = TRUE
    /\ tpc' = [tpc EXCEPT ![1] = "ready"]
    /\ UNCHANGED <<done, tcode, wstream, nOut, handlerIn>>
    /\ UNCHANGED <<shimVars, wireVars, serverVars, histVars, mockVars, lifeVars, restVars>>

\* the handler or the passthrough child reads from the replaced Call.Stdin
HandlerRead ==
    /\ tpc[1] = "ready"
    /\ wrapped
    /\ memStdin # <<>>
    /\ LET n == Min(MaxChunk, Len(memStdin))
       IN  /\ handlerIn' = handlerIn \o Prefix(memStdin, n)
           /\ memStdin' = Suffix(memStdin, n)
    /\ UNCHANGED <<wrapped, readStdin>>
    /\ UNCHANGED <<shimVars, wireVars, serverVars, testVars, histVars, mockVars, lifeVars, restVars>>

StdinBytes(n) == [i \in 1..n |-> 200 + i]

MockIdle ==
    /\ expected = <<>>
    /\ invocations = <<>>
    /\ ignoreUnexpected = FALSE
    /\ before = <<>>
    /\ lastCall = [n |-> 0, Args |-> <<>>, stdout |-> <<>>, stderr |-> <<>>, exit |-> NoCode]
    /\ checked = [made |-> FALSE]

\* no server runs and no Proxy was compiled
LifeIdle ==
    /\ serverInstance = 0
    /\ created = 0
    /\ listening = {}
    /\ proxies = {}
    /\ callHandlers = {}
    /\ chClosed = FALSE
    /\ proxyPc = "none"
    /\ closeCalls = 0
    /\ tempDir = FALSE
    /\ dispPc = "none"
    /\ dispCall = 0
    /\ hNew = [p \in 1..MaxCalls |-> "none"]
    /\ sendq = <<>>
    /\ hStreams = [p \in 1..MaxCalls |-> "none"]
    /\ hExit = [p \in 1..MaxCalls |-> "none"]
    /\ writers = [p \in 1..MaxCalls |-> "open"]
    /\ exitPc = [p \in 1..MaxCalls |-> "none"]
    /\ storeOrder = <<>>
    /\ recvOrder = <<>>
    /\ last = [op |-> "none"]

CrossIdle ==
    /\ xMode = [x \in 1..MaxProxies |-> "none"]
    /\ xCall = [x \in 1..MaxProxies |-> [c \in 1..MaxCross |-> "none"]]
    /\ xq = [d \in 1..MaxProxies |-> <<>>]
    /\ xBusy = [d \in 1..MaxProxies |-> <<>>]

NoLookup == [pc |-> "none"]

RegistryIdle ==
    /\ rProxies = [k \in {"p", "q", "n"} |-> 0]
    /\ rAliases = [k \in {"p", "q", "n"} |-> ""]
    /\ rPc = [i \in 1..MaxReg |-> "none"]
    /\ rPath = [i \in 1..MaxReg |-> ""]
    /\ lk = NoLookup

NoProbe == [made |-> FALSE]

NoExpectation == [declared |-> FALSE]
NothingConfigured ==
    [inherited |-> "", everPass |-> FALSE, out |-> <<>>, err |-> <<>>, code |-> 0,
     staleBytes |-> {}, staleCodes |-> {}]

BuilderIdle ==
    /\ mPass = ""
    /\ ex = NoExpectation
    /\ bLast = "none"
    /\ bSet = 0
    /\ bHist = NothingConfigured
    /\ bReacts = <<>>

PassIdle ==
    /\ ptPc = "idle"
    /\ ptTimeout = FALSE
    /\ ptDeadline = FALSE
    /\ ptChild = "none"
    /\ ptStatus = 0
    /\ ptCopied = FALSE
    /\ ptExits = <<>>
    /\ ptN = 0

Compilers == 1..MaxCompilers
CacheKeys == 1..MaxKeys
Dests == 1..MaxKeys

CompileIdle ==
    /\ cLock = 0
    /\ cPc = [g \in Compilers |-> "idle"]
    /\ cKey = [g \in Compilers |-> 1]
    /\ cDest = [g \in Compilers |-> 1]
    /\ cacheWrites = [k \in CacheKeys |-> 0]
    /\ temps = [g \in Compilers |-> 0]
    /\ links = [t \in Dests |-> 0]
    /\ lateWrite = FALSE
    /\ cN = 0

DCalls == 1..MaxDCalls

DispatchIdle ==
    /\ dPc = [c \in DCalls |-> "none"]
    /\ dMatched = [c \in DCalls |-> FALSE]
    /\ dExits = [c \in DCalls |-> 0]
    /\ dTotal = 0
    /\ dInv = <<>>
    /\ shimGone = {}
    /\ chkPc = "none"
    /\ chkAfter = {}
    /\ chkSnap = [total |-> 0, inv |-> <<>>]

MatchIdle == mres = [op |-> "none", a |-> <<>>, x |-> <<>>, IsMatch |-> FALSE, MatchCount |-> 0]

RestIdle == CrossIdle /\ RegistryIdle /\ probe = NoProbe /\ BuilderIdle /\ PassIdle /\ CompileIdle /\ DispatchIdle /\ MatchIdle

Init == CallInit /\ MockIdle /\ LifeIdle /\ RestIdle

Next ==
    \/ \E n \in 0..MaxStdin, readable \in BOOLEAN : ShimStart(StdinBytes(n), readable)
    \/ ShimSpawn
    \/ StdinGoAdd
    \/ StdinGoCopy
    \/ StdinGoDone
    \/ \E s \in Streams : ShimCopy(s)
    \/ \E s \in Streams : ShimStreamEof(s)
    \/ ShimWaitDone
    \/ ShimExit
    \/ HandleNewCall
    \/ \E stdinMatcher \in BOOLEAN : Dispatch(stdinMatcher)
    \/ \E s \in Streams : CopyStep(s)
    \/ \E s \in Streams : CopyEof(s)
    \/ InHCopy
    \/ InHEof
    \/ \E t \in Threads : ExitCodeCh(t)
    \/ ExitHFlush
    \/ \E t \in Threads : DoneCh(t)
    \/ \E t \in Threads, code \in ExitCodes : CallExit(t, code)
    \/ \E s \in Streams, k \in 1..MaxChunk : TestWrite(s, k)
    \/ TestWriteDone
    \/ TestRead
    \/ DrainRead
    \/ DrainEof
    \/ HandlerRead

Spec == Init /\ [][Next]_vars

\* The scheduler runs every goroutine of the shim and of the server that can
\* take a step, and completes a channel operation both sides are waiting in.
\* What test code does next (Write, Read, Exit) is up to the test.
Fairness ==
    /\ WF_vars(ShimSpawn)
    /\ WF_vars(StdinGoAdd)
    /\ WF_vars(StdinGoCopy)
    /\ WF_vars(StdinGoDone)
    /\ \A s \in Streams : WF_vars(ShimCopy(s))
    /\ \A s \in Streams : WF_vars(ShimStreamEof(s))
    /\ WF_vars(ShimWaitDone)
    /\ WF_vars(ShimExit)
    /\ WF_vars(HandleNewCall)
    /\ \A stdinMatcher \in BOOLEAN : WF_vars(Dispatch(stdinMatcher))
    /\ WF_vars(DrainRead)
    /\ WF_vars(DrainEof)
    /\ \A s \in Streams : WF_vars(CopyStep(s))
    /\ \A s \in Streams : WF_vars(CopyEof(s))
    /\ WF_vars(InHCopy)
    /\ WF_vars(InHEof)
    /\ \A t \in Threads : WF_vars(ExitCodeCh(t))
    /\ WF_vars(ExitHFlush)
    /\ \A t \in Threads : WF_vars(DoneCh(t))
    /\ WF_vars(TestWriteDone)

FairSpec == Spec /\ Fairness

\* an IsDone that turns true when the shim has acknowledged the exit code
IsDoneWhenAcked == exitH = "done"

\* Call.IsDone: atomic.LoadUint32(&c.done) == 1
IsDone == done = 1

(***************************************************************************)
(* Properties of the Call protocol                                         *)
(***************************************************************************)
\* the goroutine whose Exit took the guard
Exiters == {t \in Threads : tcode[t] # NoCode}
Panicked == {t \in Threads : tpc[t] = "panicked"}
ExpectedBytes(s, n) == [i \in 1..n |-> ByteOf(s, i)]

\* C1: the shim terminates with exactly the code that was passed to Exit on
\* the Call, and it holds no exit code (neither the response body nor a
\* decoded status) unless Exit has been called.
ExitStatusIsExitCode ==
    /\ shimPc = "exited" => \E t \in Exiters : exitStatus = tcode[t]
    /\ (respExit # <<>> \/ exitStatus # NoCode \/ hCode # NoCode) => done = 1 /\ exitCalls > 0

ShimExitedWith24 == shimPc = "exited" /\ exitStatus = 24 /\ \E t \in Threads : tcode[t] = 24

\* C2: an Exit that has returned did so after the exitcode handler received
\* its code, flushed it to the shim and signalled doneCh; while the shim has
\* not requested the exit code, the Exit that took the guard is still blocked
\* sending the code.
ExitReturnsAfterAck ==
    \A t \in Exiters :
        /\ tpc[t] \in {"returned", "panicked"} =>
              /\ exitH = "done"
              /\ hCode = tcode[t]
              /\ respExit = EncodeInt(tcode[t])
        /\ shimPc \notin {"exitreq", "exited"} => tpc[t] = "exit_send"

ExitHasReturned == \E t \in Exiters : tpc[t] = "returned" /\ exitH = "done"

\* C3: however many times and from whichever goroutine Exit is invoked, the
\* writers are closed once, at most one value is sent on exitCodeCh (exactly
\* one once the first Exit got past its send), and every invocation after
\* the first panics.
ExitAtMostOnce ==
    /\ Len(exitCodeSent) <= 1
    /\ Cardinality(Exiters) <= 1
    /\ closes = (IF exitCalls > 0 THEN 1 ELSE 0)
    /\ Cardinality(Panicked) = (IF exitCalls > 0 THEN exitCalls - 1 ELSE 0)
    /\ \A t \in Exiters : tpc[t] # "exit_send" => exitCodeSent = <<tcode[t]>>

SecondExitPanicked == exitCalls = 2 /\ Panicked # {} /\ Len(exitCodeSent) = 1

\* C4: what the system-under-test has seen on a stream is always a prefix of
\* the bytes written to it, in write order, and is all of them once the shim
\* has exited; after Exit took the guard no further byte enters either
\* stream; the exit code is sent only with both writers closed; the shim
\* requests the exit code only after both streams reached EOF.
StreamsInv ==
    /\ \A s \in Streams :
          /\ wrote[s] = ExpectedBytes(s, Len(wrote[s]))
          /\ Len(sutOut[s]) <= Len(wrote[s])
          /\ sutOut[s] = Prefix(wrote[s], Len(sutOut[s]))
          /\ shimPc = "exited" => sutOut[s] = wrote[s]
    /\ exitCodeSent # <<>> => \A s \in Streams : pipe[s].wclosed
    /\ shimPc \in {"exitreq", "exited"} =>
          \A s \in Streams : getPc[s] = "eof" /\ pipe[s].wclosed /\ resp[s] = <<>>

NoByteAfterExit ==
    /\ done = 1 => wrote' = wrote
    /\ shimPc = "exited" => sutOut' = sutOut

StreamsCompleteBeforeExit == [](StreamsInv) /\ [][NoByteAfterExit]_vars

BothStreamsDelivered ==
    /\ shimPc = "exited"
    /\ sutOut["stdout"] # <<>>
    /\ sutOut["stderr"] # <<>>

ChunkedWriteDelivered ==
    /\ shimPc = "exited"
    /\ Len(sutOut["stdout"]) = 2
    /\ nOut["stdout"] = 2

\* C5: once Exit has taken the guard, the handshake completes: both streams
\* reach EOF at the shim, the shim requests and receives the exit code and
\* exits, and Exit returns.
HandshakeDone ==
    /\ shimPc = "exited"
    /\ \A s \in Streams : getPc[s] = "eof"
    /\ exitH = "done"
    /\ \E t \in Exiters : tpc[t] \in {"returned", "panicked"}

HandshakeTerminates == (done = 1) ~> HandshakeDone

\* C32: once Exit has been acknowledged, no handler of the Call is blocked
\* on one of its pipes: the stdout and stderr handlers have returned, and
\* the stdin handler is not in a Write on the stdin pipe, whether or not
\* test code read the stdin the shim sent.
PipesReleasedAfterExit ==
    exitH = "done" =>
        /\ \A s \in Streams : streamH[s] = "done"
        /\ pipe["stdin"].pending = <<>>

\* the place of the Call in its life: 0 before it exists, 1 created, 2
\* dispatched (the dispatcher reads its stdin), 3 reacted (the reaction or
\* test code holds it), 4 exited (Exit took the guard), 5 acknowledged
CallPhase ==
    IF newH = "idle" THEN 0
    ELSE IF newH = "dispatch" THEN 1
    ELSE IF exitH = "done" THEN 5
    ELSE IF exitCalls > 0 THEN 4
    ELSE IF tpc[1] = "draining" THEN 2
    ELSE 3

ForwardOnly ==
    /\ CallPhase' >= CallPhase
    /\ IsDone => IsDone'

\* C33: a Call only moves forward through created, dispatched, reacted,
\* exited and acknowledged; IsDone is false until Exit takes the guard, true
\* from that moment on, before the shim has acknowledged the exit code, and
\* never false again.
CallMovesForward == [](IsDone <=> exitCalls > 0) /\ [][ForwardOnly]_vars

\* Exit has taken the guard and waits to send the code: IsDone is true and
\* nothing is acknowledged
DoneBeforeAck ==
    /\ IsDone
    /\ CallPhase = 4
    /\ exitH = "idle"
    /\ \E t \in Threads : tpc[t] = "exit_send"

\* the shim has sent a request for the pid of its Call
ShimRequested ==
    \/ \E s \in Streams : getPc[s] # "idle"
    \/ stdinGo \in {"copying", "done"}
    \/ shimPc \in {"exitreq", "exited"}

\* C36: the handler of a Call is stored under its pid before the Call is
\* delivered to the Proxy and before /calls/new is answered, so every stdin,
\* stdout, stderr and exitcode request of the shim finds it and none is
\* answered with 404.
HandlerStoredFirst ==
    /\ newH \in {"dispatch", "done"} => callStored
    /\ shimPc # "init" /\ shimPc # "posted" => callStored
    /\ ShimRequested => callStored

\* the shim has requested both streams and posts its stdin, and the handler
\* of its pid is stored
RequestsFindHandler ==
    /\ \A s \in Streams : getPc[s] = "requested"
    /\ stdinGo = "copying"
    /\ shimPc = "wait"
    /\ callStored

\* C11: the dispatcher of an Expectation with a stdin matcher starts no
\* reaction before it has read Call.Stdin to EOF; what it stores as the
\* Expectation's readStdin is every byte the system-under-test gave the shim
\* on stdin, in order, and the reaction reads that same byte sequence from
\* the replaced Call.Stdin.
StdinCapturedThenReplayed ==
    /\ tpc[1] = "draining" =>
          /\ ~wrapped
          /\ done = 0
          /\ \A s \in Streams : nOut[s] = 0
          /\ handlerIn = <<>>
    /\ wrapped =>
          /\ pipe["stdin"].wclosed
          /\ readStdin = sentStdin \o osStdin
          /\ handlerIn \o memStdin = readStdin

ReactionReadCapturedStdin ==
    /\ wrapped
    /\ Len(readStdin) >= 2
    /\ handlerIn = readStdin
    /\ shimPc = "exited"

\* C12: when the shim reported no stdin, the stdin writer of the stored Call
\* is closed with nothing pending, so a Read of Call.Stdin is at EOF at once
\* and a draining dispatcher can finish without any /stdin request, which
\* the shim never makes.
NoStdinIsEofAtDelivery ==
    (callStored /\ ~hasStdin) =>
        /\ pipe["stdin"].wclosed
        /\ pipe["stdin"].pending = <<>>
        /\ stdinGo = "none"
        /\ netIn = <<>>
        /\ tpc[1] = "draining" => ENABLED DrainEof

DrainedWithoutStdinRequest ==
    /\ ~hasStdin
    /\ wrapped
    /\ readStdin = <<>>
    /\ inH = "idle"
    /\ shimPc = "exited"

(***************************************************************************)
(* The Mock facade: matching                                               *)
(***************************************************************************)
InfiniteTimes == -1

\* the MatchAny() matcher; every other atom is a literal string
MatchAnyAtom == "<any>"

\* arguments of one character each, so that characters and positions agree
ArgVectors == {<<"a">>, <<"b">>}
Patterns == {<<"a">>, <<MatchAnyAtom>>, <<"b", "a">>}
CountChoices == {InfiniteTimes} \cup (0..MaxCount)

\* one round of the loop of Arguments.Match: a Matcher decides, a string
\* has to be equal
AtomAccepts(atom, actual) == IF atom = MatchAnyAtom THEN TRUE ELSE atom = actual

\* a Match that does not look at arguments after the last expected one
ArgsMatchPrefix(a, x, i) ==
    /\ Len(x) >= Len(a)
    /\ \A j \in i..Len(a) : AtomAccepts(a[j], x[j])

\* Arguments.Match: every expected atom needs an accepted argument at its
\* position, and no argument may be left over
RECURSIVE ArgsMatchFrom(_, _, _)
ArgsMatchFrom(a, x, i) ==
    IF i > Len(a) THEN ~(Len(x) > Len(a))
    ELSE IF Len(x) < i THEN FALSE
    ELSE IF ~AtomAccepts(a[i], x[i]) THEN FALSE
    ELSE ArgsMatchFrom(a, x, i + 1)

ArgumentsMatch(a, x) == ArgsMatchFrom(a, x, 1)

\* MatchCount of the match result: characters that agree before the first
\* position that fails
RECURSIVE MatchCountFrom(_, _, _)
MatchCountFrom(a, x, i) ==
    IF i > Len(a) \/ i > Len(x) THEN 0
    ELSE IF ~AtomAccepts(a[i], x[i]) THEN 0
    ELSE 1 + MatchCountFrom(a, x, i + 1)

MatchCount(a, x) == MatchCountFrom(a, x, 1)

\* a call count test that lets one call too many through
CallCountMatchInclusive(e) == e.maxCalls = InfiniteTimes \/ e.totalCalls <= e.maxCalls

\* CallCountMatch of a result row
CallCountMatch(e) == e.maxCalls = InfiniteTimes \/ e.totalCalls < e.maxCalls

\* ExpectationSet.ForArguments: one row per Expectation, in declaration order
ForArguments(exp, args) ==
    [i \in 1..Len(exp) |->
        [Expectation |-> i,
         IsMatch |-> ArgumentsMatch(exp[i].arguments, args),
         MatchCount |-> MatchCount(exp[i].arguments, args),
         CallCountMatch |-> CallCountMatch(exp[i])]]

\* a Match that takes the last exact row
MatchLast(r) ==
    LET exact == {i \in 1..Len(r) : r[i].IsMatch /\ r[i].CallCountMatch}
    IN  IF exact = {} THEN 0
        ELSE CHOOSE i \in exact : \A j \in exact : i >= j

\* ExpectationResultSet.Match: the first row that matches exactly, or 0 for
\* ErrNoExpectationsMatch
Match(r) ==
    LET exact == {i \in 1..Len(r) : r[i].IsMatch /\ r[i].CallCountMatch}
    IN  IF exact = {} THEN 0
        ELSE CHOOSE i \in exact : \A j \in exact : i <= j

\* ExpectationResultSet.ClosestMatch: the first row with the largest
\* positive MatchCount, or 0 for the zero ExpectationResult
ClosestMatch(r) ==
    LET best == {i \in 1..Len(r) :
                    /\ r[i].MatchCount > 0
                    /\ \A j \in 1..Len(r) : r[j].MatchCount <= r[i].MatchCount}
    IN  IF best = {} THEN 0
        ELSE CHOOSE i \in best : \A j \in best : i <= j

(***************************************************************************)
(* The Mock facade: Expect and its builders, Before, IgnoreUnexpected      *)
(***************************************************************************)
\* the Expectation Mock.Expect creates
NewExpectation(args) ==
    [arguments |-> args, minCalls |-> 1, maxCalls |-> 1, totalCalls |-> 0, exitCode |-> 0]

MinTimes(e, n) == [e EXCEPT !.minCalls = IF n = InfiniteTimes THEN 0 ELSE n]
MaxTimes(e, n) == [e EXCEPT !.maxCalls = n]

NoCheck == [made |-> FALSE]

\* m.Expect(args...).MinTimes(lo).MaxTimes(hi): a declaration with the
\* builder chain that follows it
Expect(args, lo, hi) ==
    /\ Len(expected) < MaxExpect
    /\ expected' = Append(expected, MaxTimes(MinTimes(NewExpectation(args), lo), hi))
    /\ checked' = NoCheck
    /\ UNCHANGED <<invocations, ignoreUnexpected, before, lastCall>>
    /\ UNCHANGED <<callVars, lifeVars, restVars>>

IgnoreUnexpectedInvocations ==
    /\ ~ignoreUnexpected
    /\ ignoreUnexpected' = TRUE
    /\ checked' = NoCheck
    /\ UNCHANGED <<expected, invocations, before, lastCall>>
    /\ UNCHANGED <<callVars, lifeVars, restVars>>

\* Mock.Before with a middleware that returns nil ("nil") or an error ("err")
\* for every Invocation
Before(f) ==
    /\ Len(before) < MaxBefore
    /\ before' = Append(before, f)
    /\ checked' = NoCheck
    /\ UNCHANGED <<expected, invocations, ignoreUnexpected, lastCall>>
    /\ UNCHANGED <<callVars, lifeVars, restVars>>

\* m.Before(f).Before(g)...: a chain of registrations, each middleware by
\* its verdict
BeforeChain(fs) ==
    /\ Len(before) + Len(fs) <= MaxChain
    /\ before' = before \o fs
    /\ checked' = NoCheck
    /\ UNCHANGED <<expected, invocations, ignoreUnexpected, lastCall>>
    /\ UNCHANGED <<callVars, lifeVars, restVars>>

(***************************************************************************)
(* The Mock facade: the dispatcher's invoke, and Check                     *)
(***************************************************************************)
\* what invoke prints to the Call's stderr
BeforeError == <<[kind |-> "before"]>>
Explanation(row) == <<[kind |-> "explain", closest |-> row]>>

\* the loop over m.before: some middleware returns an error
BeforeFails == \E i \in 1..Len(before) : before[i] = "err"

\* a loop that calls every middleware before it looks at their errors
BeforeRunAll == [i \in 1..Len(before) |-> i]

\* the loop over m.before returns at the first error: the middleware that
\* were called, in the order of their calls
BeforeRun ==
    IF BeforeFails
    THEN [i \in 1..(CHOOSE k \in 1..Len(before) :
                        before[k] = "err" /\ \A j \in 1..(k - 1) : before[j] = "nil") |-> i]
    ELSE [i \in 1..Len(before) |-> i]

Observed(args, out, err, code) ==
    [n |-> lastCall.n + 1, Args |-> args, stdout |-> out, stderr |-> err, exit |-> code,
     ran |-> BeforeRun]

\* an invoke that is silent about every unmatched Call
UnmatchedSilently(args, result) == Observed(args, <<>>, <<>>, 0)

\* invoke when Match found nothing: record the invocation, then exit
\* silently with 0 or print the closest match and exit with 1
UnmatchedReaction(args, result) ==
    IF ignoreUnexpected
    THEN Observed(args, <<>>, <<>>, 0)
    ELSE Observed(args, <<>>, Explanation(ClosestMatch(result)), 1)

\* Mock.invoke for a Call with argv[1:] = args, from taking the lock to
\* releasing it; the Exit it makes is recorded as the Call's exit code
Invoke(args) ==
    /\ lastCall.n < MaxInvoke
    /\ checked' = NoCheck
    /\ LET result == ForArguments(expected, args)
           m == Match(result)
       IN  IF BeforeFails
           THEN /\ lastCall' = Observed(args, <<>>, BeforeError, 1)
                /\ UNCHANGED <<expected, invocations>>
           ELSE IF m = 0
           THEN /\ invocations' = Append(invocations, [Args |-> args, Expectation |-> 0])
                /\ lastCall' = UnmatchedReaction(args, result)
                /\ UNCHANGED expected
           ELSE /\ lastCall' = Observed(args, <<>>, <<>>, expected[m].exitCode)
                /\ expected' = [expected EXCEPT ![m].totalCalls = @ + 1]
                /\ invocations' = Append(invocations, [Args |-> args, Expectation |-> m])
    /\ UNCHANGED <<ignoreUnexpected, before>>
    /\ UNCHANGED <<callVars, lifeVars, restVars>>

\* an Expectation.Check without the lower bound
ExpectationCheckMaxOnly(e) ==
    IF e.maxCalls # InfiniteTimes /\ e.totalCalls > e.maxCalls
    THEN [ok |-> FALSE, logs |-> 1]
    ELSE [ok |-> TRUE, logs |-> 0]

\* Expectation.Check: the verdict and the number of Logf lines
ExpectationCheck(e) ==
    IF e.minCalls # InfiniteTimes /\ e.totalCalls < e.minCalls
    THEN [ok |-> FALSE, logs |-> 1]
    ELSE IF e.maxCalls # InfiniteTimes /\ e.totalCalls > e.maxCalls
    THEN [ok |-> FALSE, logs |-> 1]
    ELSE [ok |-> TRUE, logs |-> 0]

\* a Mock.Check without the early return
NoEarlyReturn == FALSE

\* the early return of Mock.Check
NothingExpected == Len(expected) = 0

\* a Mock.Check that stops at the failed Expectations
ReportsUnlessFailed ==
    ~ignoreUnexpected /\ \A i \in 1..Len(expected) : ExpectationCheck(expected[i]).ok

\* whether Mock.Check looks at the invocations
ReportsUnexpected == ~ignoreUnexpected

\* Mock.Check: its return value and the numbers of Logf and Errorf calls
MockCheck ==
    IF NothingExpected
    THEN [made |-> TRUE, result |-> TRUE, logs |-> 0, errors |-> 0]
    ELSE LET failedExpectations ==
                 Cardinality({i \in 1..Len(expected) : ~ExpectationCheck(expected[i]).ok})
             unexpectedInvocations ==
                 IF ReportsUnexpected
                 THEN Cardinality({k \in 1..Len(invocations) : invocations[k].Expectation = 0})
                 ELSE 0
         IN  [made |-> TRUE,
              result |-> (unexpectedInvocations = 0 /\ failedExpectations = 0),
              logs |-> failedExpectations + unexpectedInvocations,
              errors |-> (IF failedExpectations > 0 THEN 1 ELSE 0)
                         + (IF unexpectedInvocations > 0 THEN 1 ELSE 0)]

Check ==
    /\ ~checked.made
    /\ checked' = MockCheck
    /\ UNCHANGED <<expected, invocations, ignoreUnexpected, before, lastCall>>
    /\ UNCHANGED <<callVars, lifeVars, restVars>>

MockNext ==
    \/ \E args \in Patterns, lo \in CountChoices, hi \in CountChoices : Expect(args, lo, hi)
    \/ IgnoreUnexpectedInvocations
    \/ \E f \in {"nil", "err"} : Before(f)
    \/ \E args \in ArgVectors : Invoke(args)
    \/ Check

MockSpec == Init /\ [][MockNext]_vars

\* a Mock with its Expectations and chains of Before middleware, and the
\* Calls dispatched to it
Chains == UNION {[1..n -> {"nil", "err"}] : n \in 1..MaxChain}

BeforeNext ==
    \/ \E args \in Patterns, lo \in CountChoices, hi \in CountChoices : Expect(args, lo, hi)
    \/ \E fs \in Chains : BeforeChain(fs)
    \/ \E args \in ArgVectors : Invoke(args)

BeforeSpec == Init /\ [][BeforeNext]_vars

(***************************************************************************)
(* Properties of the Mock facade                                           *)
(***************************************************************************)
Exhausted(e) == e.maxCalls # InfiniteTimes /\ e.totalCalls >= e.maxCalls
Accepting(args) == {i \in 1..Len(expected) : ArgumentsMatch(expected[i].arguments, args)}
Last(q) == q[Len(q)]

AllBoundsMet ==
    \A i \in 1..Len(expected) :
        /\ expected[i].minCalls = InfiniteTimes \/ expected[i].minCalls <= expected[i].totalCalls
        /\ expected[i].maxCalls = InfiniteTimes \/ expected[i].totalCalls <= expected[i].maxCalls

AllInvocationsExpected ==
    ignoreUnexpected \/ \A k \in 1..Len(invocations) : invocations[k].Expectation # 0

OutOfBounds ==
    {i \in 1..Len(expected) :
        \/ expected[i].minCalls # InfiniteTimes /\ expected[i].totalCalls < expected[i].minCalls
        \/ expected[i].maxCalls # InfiniteTimes /\ expected[i].totalCalls > expected[i].maxCalls}
Unmatched == {k \in 1..Len(invocations) : invocations[k].Expectation = 0}

EveryFailureReported ==
    (checked.made /\ Len(expected) > 0) =>
        LET reported == IF ignoreUnexpected THEN {} ELSE Unmatched
        IN  /\ checked.logs = Cardinality(OutOfBounds) + Cardinality(reported)
            /\ (OutOfBounds # {} \/ reported # {}) => ~checked.result

FailedExpectationAndUnexpectedCall ==
    /\ checked.made
    /\ ~checked.result
    /\ ~ignoreUnexpected
    /\ OutOfBounds # {}
    /\ Unmatched # {}
    /\ checked.logs >= 2
    /\ checked.errors = 2

\* C28: invoke calls the Before middleware in the order of their
\* registration up to the first one that returns an error; then the Call
\* gets the error on its stderr and Exit(1), the middleware after it are
\* not called and nothing is matched, counted or recorded; without an
\* error all of them are called.
BeforeStep ==
    lastCall'.n = lastCall.n + 1 =>
        LET failing == {i \in 1..Len(before) : before[i] = "err"}
        IN  IF failing = {}
            THEN lastCall'.ran = [i \in 1..Len(before) |-> i]
            ELSE \E k \in failing :
                    /\ \A j \in failing : k <= j
                    /\ lastCall'.ran = [i \in 1..k |-> i]
                    /\ lastCall'.stdout = <<>>
                    /\ lastCall'.stderr = BeforeError
                    /\ lastCall'.exit = 1
                    /\ expected' = expected
                    /\ invocations' = invocations

BeforeStopsAtFirstError == [][BeforeStep]_vars

LaterMiddlewareSkipped ==
    /\ lastCall.n > 0
    /\ Len(before) = 2
    /\ before[1] = "err"
    /\ lastCall.ran = <<1>>
    /\ lastCall.exit = 1
    /\ lastCall.stderr = BeforeError
    /\ invocations = <<>>
    /\ \E i \in 1..Len(expected) :
          ArgumentsMatch(expected[i].arguments, lastCall.Args) /\ expected[i].totalCalls = 0

\* C7: with no Expectation declared Check returns true, also after an
\* invocation was rejected as unexpected, and that invocation exited
\* non-zero.
NoExpectationsCheckPasses ==
    Len(expected) = 0 =>
        /\ checked.made => checked.result
        /\ (lastCall.n > 0 /\ ~ignoreUnexpected) => lastCall.exit # 0

CheckPassedAfterRejectedCall ==
    /\ Len(expected) = 0
    /\ ~ignoreUnexpected
    /\ invocations # <<>>
    /\ Last(invocations).Expectation = 0
    /\ lastCall.exit = 1
    /\ checked.made
    /\ checked.result

\* C8: an invocation is consumed by the earliest-declared Expectation that
\* accepts its arguments and is still below its maxCalls; a later-declared
\* one is used only when every earlier accepting one is exhausted, and none
\* when all accepting ones are.
ConsumedInOrderStep ==
    Len(invocations') = Len(invocations) + 1 =>
        LET inv == Last(invocations')
            i == inv.Expectation
            open == {j \in Accepting(inv.Args) : ~Exhausted(expected[j])}
        IN  IF open = {}
            THEN i = 0 /\ expected' = expected
            ELSE /\ i \in open
                 /\ \A j \in open : i <= j
                 /\ expected' = [expected EXCEPT ![i].totalCalls = @ + 1]

ConsumedInDeclarationOrder == [][ConsumedInOrderStep]_vars

LaterExpectationUsedAfterEarlier ==
    /\ Len(invocations) >= 2
    /\ invocations[1].Args = invocations[2].Args
    /\ invocations[1].Expectation = 1
    /\ invocations[2].Expectation = 2
    /\ Exhausted(expected[1])

\* C9: no bounded Expectation is ever counted beyond its maxCalls; a Call
\* whose arguments only exhausted Expectations accept is not matched, bumps
\* no counter and, unless ignoreUnexpected is set, exits non-zero.
WithinMaxCalls ==
    \A i \in 1..Len(expected) :
        expected[i].maxCalls # InfiniteTimes => expected[i].totalCalls <= expected[i].maxCalls

ExhaustedStep ==
    (/\ lastCall'.n = lastCall.n + 1
     /\ Accepting(lastCall'.Args) # {}
     /\ \A j \in Accepting(lastCall'.Args) : Exhausted(expected[j]))
    => /\ \A j \in 1..Len(expected) : expected'[j].totalCalls = expected[j].totalCalls
       /\ Len(expected') = Len(expected)
       /\ \A k \in (Len(invocations) + 1)..Len(invocations') : invocations'[k].Expectation = 0
       /\ ~ignoreUnexpected => lastCall'.exit # 0

MaxCallsNeverExceeded == [](WithinMaxCalls) /\ [][ExhaustedStep]_vars

ExhaustedExpectationRejectedCall ==
    /\ lastCall.n > 0
    /\ lastCall.exit = 1
    /\ before = <<>>
    /\ \E i \in Accepting(lastCall.Args) : expected[i].totalCalls = 1 /\ expected[i].maxCalls = 1
    /\ \E i \in Accepting(lastCall.Args) : expected[i].maxCalls = 0
    /\ Last(invocations) = [Args |-> lastCall.Args, Expectation |-> 0]

\* C10: a Call that reaches matching (no Before middleware stopped it) and
\* matches no Expectation is recorded without an Expectation and changes no
\* counter; with ignoreUnexpected it exits with 0 and prints nothing,
\* without it the explanation of the closest match goes to its stderr and
\* it exits with 1.
IsClosest(c, args) ==
    IF c = 0
    THEN \A j \in 1..Len(expected) : MatchCount(expected[j].arguments, args) = 0
    ELSE /\ c \in 1..Len(expected)
         /\ MatchCount(expected[c].arguments, args) > 0
         /\ \A j \in 1..Len(expected) :
               /\ MatchCount(expected[j].arguments, args) <= MatchCount(expected[c].arguments, args)
               /\ j < c => MatchCount(expected[j].arguments, args) < MatchCount(expected[c].arguments, args)

UnmatchedStep ==
    (/\ lastCall'.n = lastCall.n + 1
     /\ ~BeforeFails
     /\ \A j \in Accepting(lastCall'.Args) : Exhausted(expected[j]))
    => /\ expected' = expected
       /\ invocations' = Append(invocations, [Args |-> lastCall'.Args, Expectation |-> 0])
       /\ lastCall'.stdout = <<>>
       /\ IF ignoreUnexpected
          THEN lastCall'.exit = 0 /\ lastCall'.stderr = <<>>
          ELSE /\ lastCall'.exit = 1
               /\ Len(lastCall'.stderr) = 1
               /\ lastCall'.stderr[1].kind = "explain"
               /\ IsClosest(lastCall'.stderr[1].closest, lastCall'.Args)

UnmatchedCallReaction == [][UnmatchedStep]_vars

UnmatchedCallExplained ==
    /\ lastCall.n > 0
    /\ ~ignoreUnexpected
    /\ lastCall.exit = 1
    /\ lastCall.stderr # <<>>
    /\ lastCall.stderr[1].kind = "explain"
    /\ lastCall.stderr[1].closest = 2
    /\ Len(expected[2].arguments) = 2
    /\ Accepting(lastCall.Args) = {}
    /\ Last(invocations) = [Args |-> lastCall.Args, Expectation |-> 0]

(***************************************************************************)
(* The server singleton: StartServer, StopServer                           *)
(***************************************************************************)
Pids == 1..MaxCalls

\* the path NewMock compiles its Proxy for, and a path no Proxy was
\* compiled for
ProxyPath == "p"
OtherPath == "q"

\* a StartServer that never finds an instance
NeverAnInstance == TRUE

\* if serverInstance == nil
NoInstance == serverInstance = 0

\* StartServer under serverLock: the state of the singleton afterwards and
\* the value returned (0 with the error of net.Listen)
AfterStart(listenOk) ==
    IF NoInstance
    THEN IF listenOk
         THEN [instance |-> created + 1, created |-> created + 1,
               listening |-> listening \cup {created + 1},
               proxies |-> {}, callHandlers |-> {}, ret |-> created + 1]
         ELSE [instance |-> serverInstance, created |-> created, listening |-> listening,
               proxies |-> proxies, callHandlers |-> callHandlers, ret |-> 0]
    ELSE [instance |-> serverInstance, created |-> created, listening |-> listening,
          proxies |-> proxies, callHandlers |-> callHandlers, ret |-> serverInstance]

callVarsOfLife == <<hNew, sendq, hStreams, hExit, writers, exitPc, storeOrder, recvOrder>>
proxyVars == <<chClosed, proxyPc, closeCalls, tempDir, dispPc, dispCall>>

StartServer(listenOk) ==
    /\ created < MaxServers
    /\ LET a == AfterStart(listenOk)
       IN  /\ serverInstance' = a.instance
           /\ created' = a.created
           /\ listening' = a.listening
           /\ proxies' = a.proxies
           /\ callHandlers' = a.callHandlers
           /\ last' = [op |-> "start", ret |-> a.ret]
    /\ UNCHANGED <<proxyVars, callVarsOfLife>>
    /\ UNCHANGED <<callVars, mockVars, restVars>>

\* StopServer under serverLock: close the Listener and clear the singleton,
\* or do nothing
StopServer ==
    /\ IF serverInstance # 0
       THEN /\ listening' = listening \ {serverInstance}
            /\ serverInstance' = 0
       ELSE UNCHANGED <<listening, serverInstance>>
    /\ last' = [op |-> "stop", ret |-> 0]
    /\ UNCHANGED <<created, proxies, callHandlers>>
    /\ UNCHANGED <<proxyVars, callVarsOfLife>>
    /\ UNCHANGED <<callVars, mockVars, restVars>>

(***************************************************************************)
(* NewMock (Compile, registerProxy, the dispatcher) and Proxy.Close        *)
(***************************************************************************)
\* NewMock with a relative path: Compile creates the temp directory, starts
\* the server if needed and registers the Proxy; the dispatcher goroutine
\* starts ranging over Proxy.Ch.
NewMock(listenOk) ==
    /\ proxyPc = "none"
    /\ created < MaxServers
    /\ LET a == AfterStart(listenOk)
       IN  /\ serverInstance' = a.instance
           /\ created' = a.created
           /\ listening' = a.listening
           /\ callHandlers' = a.callHandlers
           /\ IF a.ret = 0
              THEN /\ last' = [op |-> "newmock", ret |-> 0]
                   /\ UNCHANGED <<proxies, proxyPc, tempDir, dispPc>>
              ELSE /\ proxies' = a.proxies \cup {ProxyPath}
                   /\ proxyPc' = "open"
                   /\ tempDir' = TRUE
                   /\ dispPc' = "idle"
                   /\ last' = [op |-> "newmock", ret |-> a.ret]
    /\ UNCHANGED <<chClosed, closeCalls, dispCall, callVarsOfLife>>
    /\ UNCHANGED <<callVars, mockVars, restVars>>

\* Proxy.Close, its first statement: close(p.Ch).  Closing a closed channel
\* panics before any defer is registered; closing an open one makes every
\* send blocked on it panic.
CloseBegin ==
    /\ proxyPc \in {"open", "closed"}
    /\ closeCalls < MaxClose
    /\ closeCalls' = closeCalls + 1
    /\ IF chClosed
       THEN /\ last' = [op |-> "close", ret |-> "panic"]
            /\ UNCHANGED <<chClosed, proxyPc, hNew, sendq>>
       ELSE /\ chClosed' = TRUE
            /\ proxyPc' = "closing"
            /\ hNew' = [p \in Pids |->
                          IF \E i \in 1..Len(sendq) : sendq[i] = p THEN "panicked" ELSE hNew[p]]
            /\ sendq' = <<>>
            /\ UNCHANGED last
    /\ UNCHANGED <<serverInstance, created, listening, proxies, callHandlers>>
    /\ UNCHANGED <<tempDir, dispPc, dispCall>>
    /\ UNCHANGED <<hStreams, hExit, writers, exitPc, storeOrder, recvOrder>>
    /\ UNCHANGED <<callVars, mockVars, restVars>>

\* Proxy.Close, its deferred functions: serverInstance.deregisterProxy(p)
\* under serverLock, which dereferences nil when the server was stopped, then
\* os.RemoveAll(p.tempDir), which also runs while that panic unwinds.
CloseFinish ==
    /\ proxyPc = "closing"
    /\ proxyPc' = "closed"
    /\ tempDir' = FALSE
    /\ IF serverInstance = 0
       THEN /\ last' = [op |-> "close", ret |-> "panic"]
            /\ UNCHANGED proxies
       ELSE /\ last' = [op |-> "close", ret |-> "ok"]
            /\ proxies' = proxies \ {ProxyPath}
    /\ UNCHANGED <<serverInstance, created, listening, callHandlers>>
    /\ UNCHANGED <<chClosed, closeCalls, dispPc, dispCall, callVarsOfLife>>
    /\ UNCHANGED <<callVars, mockVars, restVars>>

\* for call := range m.proxy.Ch ends on the closed channel
DispatcherEnds ==
    /\ dispPc = "idle"
    /\ chClosed
    /\ dispPc' = "terminated"
    /\ UNCHANGED <<serverInstance, created, listening, proxies, callHandlers>>
    /\ UNCHANGED <<chClosed, proxyPc, closeCalls, tempDir, dispCall, callVarsOfLife, last>>
    /\ UNCHANGED <<callVars, mockVars, restVars>>

(***************************************************************************)
(* Server.ServeHTTP and handleNewCall: routing and the error answers       *)
(***************************************************************************)
\* A request: its route ("new" for /calls/new, "call" for /calls/<digits>/<sub>,
\* "other" for any other path); for "new" whether the body is JSON and the
\* Args it carries; for "call" whether the digits fit 64 bits, their value
\* and the last path element.
NewRequest(json, args, pid) ==
    [route |-> "new", json |-> json, Args |-> args, fits |-> TRUE, pid |-> pid, sub |-> ""]
CallRequest(fits, pid, sub) ==
    [route |-> "call", json |-> TRUE, Args |-> <<>>, fits |-> fits, pid |-> pid, sub |-> sub]
OtherRequest ==
    [route |-> "other", json |-> TRUE, Args |-> <<>>, fits |-> TRUE, pid |-> 1, sub |-> ""]

Requests ==
    {OtherRequest, NewRequest(FALSE, <<>>, 1), NewRequest(TRUE, <<>>, 1),
     NewRequest(TRUE, <<OtherPath>>, 1), CallRequest(FALSE, 1, "stdout"),
     CallRequest(TRUE, 1, "status")}
    \cup {NewRequest(TRUE, <<ProxyPath>>, p) : p \in Pids}
    \cup {CallRequest(TRUE, p, sub) : p \in Pids, sub \in {"stdout", "exitcode"}}

\* the handler panicked: net/http recovers and closes the connection
\* without an answer
NoAnswer == 0

\* Server.lookupProxy without aliases: s.proxies.Load(path)
lookupProxy(path) == path \in proxies

\* callRouteRegex
RouteMatches(r) == r.route = "call" /\ r.sub \in {"stdout", "stderr", "stdin", "exitcode"}

\* handleNewCall up to the lookup: Decode fails, req.Args[0] is out of
\* range, lookupProxy fails, or the Call is created
NewCallStatus(r) ==
    IF ~r.json THEN 400
    ELSE IF Len(r.Args) = 0 THEN NoAnswer
    ELSE IF ~lookupProxy(r.Args[1]) THEN 404
    ELSE 200

\* a ServeHTTP that answers every unusable path with 404
RouteStatusNotFound(r) ==
    IF ~RouteMatches(r) THEN 404
    ELSE IF ~r.fits THEN 404
    ELSE IF r.pid \notin callHandlers THEN 404
    ELSE 200

\* Server.ServeHTTP for a path other than /calls/new: the regexp does not
\* match, ParseInt fails, callHandlers.Load misses, or the handler runs
RouteStatus(r) ==
    IF ~RouteMatches(r) THEN 400
    ELSE IF ~r.fits THEN 400
    ELSE IF r.pid \notin callHandlers THEN 404
    ELSE 200

ServeStatus(r) == IF r.route = "new" THEN NewCallStatus(r) ELSE RouteStatus(r)

\* a request that ends in one of the early returns (or the panic) of
\* ServeHTTP and handleNewCall
RefusedRequest(r) ==
    /\ serverInstance # 0
    /\ ServeStatus(r) # 200
    /\ last' = [op |-> "request", req |-> r, status |-> ServeStatus(r)]
    /\ UNCHANGED <<serverInstance, created, listening, proxies, callHandlers>>
    /\ UNCHANGED <<proxyVars, callVarsOfLife>>
    /\ UNCHANGED <<callVars, mockVars, restVars>>

(***************************************************************************)
(* The Calls of the Proxy: handleNewCall, the channel, the handlers        *)
(***************************************************************************)
\* handleNewCall after the lookup: create the Call and callHandlers.Store
NewCall(p) ==
    /\ serverInstance # 0
    /\ hNew[p] = "none"
    /\ ServeStatus(NewRequest(TRUE, <<ProxyPath>>, p)) = 200
    /\ callHandlers' = callHandlers \cup {p}
    /\ storeOrder' = Append(storeOrder, p)
    /\ hNew' = [hNew EXCEPT ![p] = "stored"]
    /\ UNCHANGED <<serverInstance, created, listening, proxies>>
    /\ UNCHANGED <<proxyVars, sendq, hStreams, hExit, writers, exitPc, recvOrder, last>>
    /\ UNCHANGED <<callVars, mockVars, restVars>>

\* a send that blocks on a closed channel as it does on an open one
SendOnClosedBlocks == FALSE

\* a send on a closed channel panics
SendOnClosedPanics == chClosed

\* the handler reaches proxy.Ch <- call: it panics on a closed channel and
\* queues up as a sender otherwise
HandlerSends(p) ==
    /\ hNew[p] = "stored"
    /\ IF SendOnClosedPanics
       THEN /\ hNew' = [hNew EXCEPT ![p] = "panicked"]
            /\ UNCHANGED sendq
       ELSE /\ hNew' = [hNew EXCEPT ![p] = "sending"]
            /\ sendq' = Append(sendq, p)
    /\ UNCHANGED <<serverInstance, created, listening, proxies, callHandlers>>
    /\ UNCHANGED <<proxyVars, hStreams, hExit, writers, exitPc, storeOrder, recvOrder, last>>
    /\ UNCHANGED <<callVars, mockVars, restVars>>

\* the sender the channel serves next: the one that has waited longest
NextSender == Head(sendq)

\* the dispatcher receives from Proxy.Ch: the handler returns, /calls/new is
\* answered and m.invoke(call) starts
Deliver ==
    /\ dispPc = "idle"
    /\ sendq # <<>>
    /\ LET p == NextSender
       IN  /\ hNew' = [hNew EXCEPT ![p] = "delivered"]
           /\ sendq' = SelectSeq(sendq, LAMBDA q : q # p)
           /\ recvOrder' = Append(recvOrder, p)
           /\ dispCall' = p
    /\ dispPc' = "invoking"
    /\ UNCHANGED <<serverInstance, created, listening, proxies, callHandlers>>
    /\ UNCHANGED <<chClosed, proxyPc, closeCalls, tempDir>>
    /\ UNCHANGED <<hStreams, hExit, writers, exitPc, storeOrder, last>>
    /\ UNCHANGED <<callVars, mockVars, restVars>>

\* the shim's GETs of /calls/<pid>/stdout and /stderr find the handler,
\* which blocks in pipeReader.Read
ShimGetsStreams(p) ==
    /\ serverInstance # 0
    /\ hNew[p] = "delivered"
    /\ hStreams[p] = "none"
    /\ ServeStatus(CallRequest(TRUE, p, "stdout")) = 200
    /\ hStreams' = [hStreams EXCEPT ![p] = "blocked"]
    /\ UNCHANGED <<serverInstance, created, listening, proxies, callHandlers>>
    /\ UNCHANGED <<proxyVars, hNew, sendq, hExit, writers, exitPc, storeOrder, recvOrder, last>>
    /\ UNCHANGED <<callVars, mockVars, restVars>>

\* copyPipeWithFlush ends at EOF, when the writers are closed
StreamsEof(p) ==
    /\ hStreams[p] = "blocked"
    /\ writers[p] = "closed"
    /\ hStreams' = [hStreams EXCEPT ![p] = "done"]
    /\ UNCHANGED <<serverInstance, created, listening, proxies, callHandlers>>
    /\ UNCHANGED <<proxyVars, hNew, sendq, hExit, writers, exitPc, storeOrder, recvOrder, last>>
    /\ UNCHANGED <<callVars, mockVars, restVars>>

\* after both streams ended the shim GETs /calls/<pid>/exitcode; the handler
\* blocks in <-ch.call.exitCodeCh
ShimGetsExit(p) ==
    /\ serverInstance # 0
    /\ hStreams[p] = "done"
    /\ hExit[p] = "none"
    /\ ServeStatus(CallRequest(TRUE, p, "exitcode")) = 200
    /\ hExit' = [hExit EXCEPT ![p] = "blocked"]
    /\ UNCHANGED <<serverInstance, created, listening, proxies, callHandlers>>
    /\ UNCHANGED <<proxyVars, hNew, sendq, hStreams, writers, exitPc, storeOrder, recvOrder, last>>
    /\ UNCHANGED <<callVars, mockVars, restVars>>

\* the reaction calls Exit: the writers are closed and Exit blocks in its
\* send on exitCodeCh
InvokeExit(p) ==
    /\ dispPc = "invoking"
    /\ dispCall = p
    /\ exitPc[p] = "none"
    /\ writers' = [writers EXCEPT ![p] = "closed"]
    /\ exitPc' = [exitPc EXCEPT ![p] = "sending"]
    /\ UNCHANGED <<serverInstance, created, listening, proxies, callHandlers>>
    /\ UNCHANGED <<proxyVars, hNew, sendq, hStreams, hExit, storeOrder, recvOrder, last>>
    /\ UNCHANGED <<callVars, mockVars, restVars>>

\* a handler function closes call.Stdout and call.Stderr itself
InvokeCloses(p) ==
    /\ dispPc = "invoking"
    /\ dispCall = p
    /\ exitPc[p] = "none"
    /\ writers[p] = "open"
    /\ writers' = [writers EXCEPT ![p] = "closed"]
    /\ UNCHANGED <<serverInstance, created, listening, proxies, callHandlers>>
    /\ UNCHANGED <<proxyVars, hNew, sendq, hStreams, hExit, exitPc, storeOrder, recvOrder, last>>
    /\ UNCHANGED <<callVars, mockVars, restVars>>

\* a handler function returns without having called Exit; invoke returns
InvokeReturns(p) ==
    /\ dispPc = "invoking"
    /\ dispCall = p
    /\ exitPc[p] = "none"
    /\ dispPc' = "idle"
    /\ dispCall' = 0
    /\ UNCHANGED <<serverInstance, created, listening, proxies, callHandlers>>
    /\ UNCHANGED <<chClosed, proxyPc, closeCalls, tempDir, callVarsOfLife, last>>
    /\ UNCHANGED <<callVars, mockVars, restVars>>

\* the exitcode handler receives the code, answers and acknowledges; Exit
\* and with it invoke return
ExitRendezvous(p) ==
    /\ hExit[p] = "blocked"
    /\ exitPc[p] = "sending"
    /\ hExit' = [hExit EXCEPT ![p] = "done"]
    /\ exitPc' = [exitPc EXCEPT ![p] = "acked"]
    /\ IF dispPc = "invoking" /\ dispCall = p
       THEN dispPc' = "idle" /\ dispCall' = 0
       ELSE UNCHANGED <<dispPc, dispCall>>
    /\ UNCHANGED <<serverInstance, created, listening, proxies, callHandlers>>
    /\ UNCHANGED <<chClosed, proxyPc, closeCalls, tempDir>>
    /\ UNCHANGED <<hNew, sendq, hStreams, writers, storeOrder, recvOrder, last>>
    /\ UNCHANGED <<callVars, mockVars, restVars>>

LifeNext ==
    \/ \E listenOk \in BOOLEAN : StartServer(listenOk)
    \/ StopServer
    \/ \E listenOk \in BOOLEAN : NewMock(listenOk)
    \/ CloseBegin
    \/ CloseFinish
    \/ DispatcherEnds
    \/ \E p \in Pids : NewCall(p)
    \/ \E p \in Pids : HandlerSends(p)
    \/ Deliver
    \/ \E p \in Pids : ShimGetsStreams(p)
    \/ \E p \in Pids : StreamsEof(p)
    \/ \E p \in Pids : ShimGetsExit(p)
    \/ \E p \in Pids : InvokeExit(p)
    \/ \E p \in Pids : InvokeCloses(p)
    \/ \E p \in Pids : InvokeReturns(p)
    \/ \E p \in Pids : ExitRendezvous(p)

\* the Proxy up to the delivery of its Calls: the server, NewMock, Close and
\* the channel
CloseNext ==
    \/ \E listenOk \in BOOLEAN : StartServer(listenOk)
    \/ StopServer
    \/ \E listenOk \in BOOLEAN : NewMock(listenOk)
    \/ CloseBegin
    \/ CloseFinish
    \/ DispatcherEnds
    \/ \E p \in Pids : NewCall(p)
    \/ \E p \in Pids : HandlerSends(p)
    \/ Deliver
    \/ \E p \in Pids : InvokeReturns(p)

\* the same with the requests the server refuses
ServerNext ==
    \/ CloseNext
    \/ \E r \in Requests : RefusedRequest(r)

ServerSpec == Init /\ [][ServerNext]_vars

\* Close and the goroutines at the channel run on: the deferred functions
\* of Close, the handler's send, the dispatcher's receive and the end of
\* its range loop
CloseFairness ==
    /\ WF_vars(CloseFinish)
    /\ WF_vars(DispatcherEnds)
    /\ WF_vars(Deliver)
    /\ \A p \in Pids : WF_vars(HandlerSends(p))

FairCloseSpec == Init /\ [][CloseNext]_vars /\ CloseFairness

LifeSpec == Init /\ [][LifeNext]_vars

\* Goroutines of the server, of the shims and the dispatcher run when they
\* can, and a Close that has begun runs to its end.  Whether and when test
\* code starts or stops the server, closes the Mock or calls Exit, and what
\* requests arrive, is not up to the scheduler.
LifeFairness ==
    /\ WF_vars(CloseFinish)
    /\ WF_vars(DispatcherEnds)
    /\ WF_vars(Deliver)
    /\ \A p \in Pids : WF_vars(HandlerSends(p))
    /\ \A p \in Pids : WF_vars(ShimGetsStreams(p))
    /\ \A p \in Pids : WF_vars(StreamsEof(p))
    /\ \A p \in Pids : WF_vars(ShimGetsExit(p))
    /\ \A p \in Pids : WF_vars(ExitRendezvous(p))

FairLifeSpec == LifeSpec /\ LifeFairness

(***************************************************************************)
(* Properties of the server, the Proxy and its Calls                       *)
(***************************************************************************)
\* a step in which a request was refused
Refusal == last' # last /\ last'.op = "request"
UnknownRoute(r) == r.route = "other" \/ (r.route = "call" /\ ~RouteMatches(r))
MalformedBody(r) == r.route = "new" /\ ~r.json
PidMiss(r) == r.route = "call" /\ RouteMatches(r) /\ r.fits /\ r.pid \notin callHandlers
PidOverflow(r) == r.route = "call" /\ RouteMatches(r) /\ ~r.fits
NothingCreated == UNCHANGED <<proxies, callHandlers, callVarsOfLife, dispPc, dispCall>>

\* C13 as stated: an unrecognised route is answered with 404, a body that is
\* not JSON with 400 and a pid without a stored handler with 404, and none
\* of them creates a Call, stores a handler or delivers anything.
RefusedAsStatedStep ==
    Refusal =>
        LET r == last'.req
        IN  /\ UnknownRoute(r) => last'.status = 404
            /\ MalformedBody(r) => last'.status = 400
            /\ PidMiss(r) => last'.status = 404
            /\ (UnknownRoute(r) \/ MalformedBody(r) \/ PidMiss(r)) => NothingCreated

RefusedWithStatusStep ==
    Refusal =>
        LET r == last'.req
        IN  /\ UnknownRoute(r) => last'.status = 400
            /\ MalformedBody(r) => last'.status = 400
            /\ PidOverflow(r) => last'.status = 400
            /\ PidMiss(r) => last'.status = 404
            /\ (UnknownRoute(r) \/ MalformedBody(r) \/ PidOverflow(r) \/ PidMiss(r))
                  => NothingCreated

UnusableNewCallStep ==
    Refusal =>
        LET r == last'.req
        IN  (r.route = "new" /\ r.json /\ (Len(r.Args) = 0 \/ ~lookupProxy(r.Args[1])))
                => /\ last'.status \in {400, 404}
                   /\ UNCHANGED <<proxies, callHandlers>>

UnusableNewCallRefused == [][UnusableNewCallStep]_vars

\* C15: at most one Listener is open, and it is the singleton's; StartServer
\* returns the running instance or else creates a fresh one (unless
\* net.Listen fails); StopServer closes the Listener and clears the
\* singleton and does nothing when there is none.
OneServerInv ==
    /\ Cardinality(listening) <= 1
    /\ serverInstance = 0 => listening = {}
    /\ serverInstance # 0 => listening = {serverInstance}

StartStopStep ==
    /\ (last' # last /\ last'.op = "start") =>
          IF serverInstance # 0
          THEN last'.ret = serverInstance /\ UNCHANGED <<serverInstance, listening, created>>
          ELSE \/ last'.ret = 0 /\ UNCHANGED <<serverInstance, listening, created>>
               \/ /\ last'.ret = created + 1
                  /\ serverInstance' = created + 1
                  /\ created' = created + 1
                  /\ listening' = {created + 1}
    /\ (last' # last /\ last'.op = "stop") =>
          /\ serverInstance' = 0
          /\ listening' = {}
          /\ serverInstance = 0 => UNCHANGED <<listening, created, proxies, callHandlers>>

AtMostOneServer == [](OneServerInv) /\ [][StartStopStep]_vars

FreshServerAfterStop ==
    /\ last.op = "start"
    /\ last.ret = 2
    /\ serverInstance = 2
    /\ listening = {2}

\* C16: a Close of a Proxy that is already closed returns without error and
\* without panicking, and leaves the registry and the filesystem alone.
SecondCloseStep ==
    (proxyPc = "closed" /\ closeCalls' = closeCalls + 1) =>
        /\ last' = [op |-> "close", ret |-> "ok"]
        /\ UNCHANGED <<proxies, tempDir, chClosed>>

CloseIsIdempotent == [][SecondCloseStep]_vars

\* C17: once Close has closed the channel while a Call is stored but not
\* yet received, nothing waits on that channel for good: Close comes to its
\* end, no handler stays in its send, and the dispatcher is not left
\* waiting for a Call (it has terminated, or it still runs the reaction of
\* a Call it received before).
QueuedAtClose == proxyPc = "closing" /\ \E p \in Pids : hNew[p] = "stored"
NothingWaitsOnChannel ==
    /\ proxyPc = "closed"
    /\ \A p \in Pids : hNew[p] \notin {"stored", "sending"}
    /\ dispPc \in {"terminated", "invoking"}

ClosedOrStopped == proxyPc = "closed" \/ (serverInstance = 0 /\ created > 0)
NoHandlerBlocked == \A p \in Pids : hStreams[p] # "blocked" /\ hExit[p] # "blocked"

BlockedHandlersReleased == (ClosedOrStopped /\ dispPc # "invoking") ~> NoHandlerBlocked

\* C19: when Close closes the channel, no Call of the Proxy is stored but
\* not yet acknowledged.
InFlight ==
    {p \in Pids : hNew[p] \in {"stored", "sending", "delivered"} /\ exitPc[p] # "acked"}

NoInFlightAtCloseStep == (chClosed' /\ ~chClosed) => InFlight = {}

NoInFlightAtClose == [][NoInFlightAtCloseStep]_vars

\* C20: the dispatcher receives the Calls in the order in which their
\* handlers were stored.
Pos(q, x) == CHOOSE i \in 1..Len(q) : q[i] = x

ReceivedInStoreOrder ==
    \A i, j \in 1..Len(recvOrder) :
        i < j => Pos(storeOrder, recvOrder[i]) < Pos(storeOrder, recvOrder[j])

(***************************************************************************)
(* Several Proxies: each Mock has its own channel and its own dispatcher   *)
(***************************************************************************)
XProxies == 1..MaxProxies
XCalls == 1..MaxCross

\* what the reactions of a Mock do with their Calls
XModes == {"exits", "hangs", "stuck"}

\* one channel and one dispatcher for all Proxies
OneChannel(x) == 1

\* Compile makes a channel for each Proxy, and NewMock starts a goroutine
\* ranging over it
ChannelOf(x) == x

\* NewMock: Compile registers the Proxy and the dispatcher starts
XNewMock(x, mode) ==
    /\ xMode[x] = "none"
    /\ xMode' = [xMode EXCEPT ![x] = mode]
    /\ UNCHANGED <<xCall, xq, xBusy>>
    /\ UNCHANGED outsideCross

\* handleNewCall in the goroutine of its request: the handler is stored and
\* blocks in the send on the channel of its Proxy
XNewCall(x, c) ==
    /\ xMode[x] # "none"
    /\ xCall[x][c] = "none"
    /\ xCall' = [xCall EXCEPT ![x][c] = "sending"]
    /\ xq' = [xq EXCEPT ![ChannelOf(x)] = Append(@, <<x, c>>)]
    /\ UNCHANGED <<xMode, xBusy>>
    /\ UNCHANGED outsideCross

\* the dispatcher of channel d receives its next Call and runs m.invoke
XDeliver(d) ==
    /\ xBusy[d] = <<>>
    /\ xq[d] # <<>>
    /\ LET xc == Head(xq[d])
       IN  /\ xCall' = [xCall EXCEPT ![xc[1]][xc[2]] = "invoking"]
           /\ xBusy' = [xBusy EXCEPT ![d] = xc]
    /\ xq' = [xq EXCEPT ![d] = Tail(@)]
    /\ UNCHANGED xMode
    /\ UNCHANGED outsideCross

\* the reaction calls Exit, which blocks in its send on exitCodeCh
XExit(x, c) ==
    /\ xCall[x][c] = "invoking"
    /\ xMode[x] # "hangs"
    /\ xCall' = [xCall EXCEPT ![x][c] = "exiting"]
    /\ UNCHANGED <<xMode, xq, xBusy>>
    /\ UNCHANGED outsideCross

\* the exitcode handler of the Call serves its shim and acknowledges: the
\* shim has its exit code, Exit and m.invoke return
XAck(x, c) ==
    /\ xCall[x][c] = "exiting"
    /\ xMode[x] = "exits"
    /\ xCall' = [xCall EXCEPT ![x][c] = "done"]
    /\ xBusy' = [d \in XProxies |-> IF xBusy[d] = <<x, c>> THEN <<>> ELSE xBusy[d]]
    /\ UNCHANGED <<xMode, xq>>
    /\ UNCHANGED outsideCross

CrossNext ==
    \/ \E x \in XProxies, mode \in XModes : XNewMock(x, mode)
    \/ \E x \in XProxies, c \in XCalls : XNewCall(x, c)
    \/ \E d \in XProxies : XDeliver(d)
    \/ \E x \in XProxies, c \in XCalls : XExit(x, c)
    \/ \E x \in XProxies, c \in XCalls : XAck(x, c)

CrossSpec == Init /\ [][CrossNext]_vars

\* every goroutine that can run does: the dispatchers, the reactions that
\* call Exit, the handlers whose shim is there
CrossFairness ==
    /\ \A d \in XProxies : WF_vars(XDeliver(d))
    /\ \A x \in XProxies, c \in XCalls : WF_vars(XExit(x, c))
    /\ \A x \in XProxies, c \in XCalls : WF_vars(XAck(x, c))

FairCrossSpec == CrossSpec /\ CrossFairness

\* C21: whatever the Calls of the other Proxies are doing (waiting in the
\* send, held by a reaction, blocked in Exit), a Call of a Proxy whose
\* reactions exit can always be created, and once created it is dispatched
\* and reaches its exit code.
XCreatable ==
    \A x \in XProxies, c \in XCalls :
        (xMode[x] # "none" /\ xCall[x][c] = "none") => ENABLED XNewCall(x, c)

XCompletes ==
    \A x \in XProxies, c \in XCalls :
        (xMode[x] = "exits" /\ xCall[x][c] = "sending") ~> (xCall[x][c] = "done")

ProxiesDoNotBlockEachOther == []XCreatable /\ XCompletes

CompletedBesideBlockedProxy ==
    \E x, y \in XProxies :
        /\ xMode[x] = "exits"
        /\ \A c \in XCalls : xCall[x][c] = "done"
        /\ \E c, k \in XCalls : xCall[y][c] \in {"invoking", "exiting"} /\ xCall[y][k] = "sending"

(***************************************************************************)
(* The registry: registerProxy, deregisterProxy, aliasProxy, lookupProxy   *)
(***************************************************************************)
\* the paths Proxies are compiled at, and the keys the maps are used with:
\* these and a name that is only ever an alias
RegPaths == {"p", "q"}
RegKeys == {"p", "q", "n"}
Regs == 1..MaxReg

\* a registry operation ran while a lookup is under way
Disturbed ==
    IF lk.pc \in {"range", "load"} THEN [lk EXCEPT !.quiet = FALSE] ELSE lk

\* registerProxy, its first statement: s.proxies.Store(p.Path, p)
RegisterStore(i, path) ==
    /\ rPc[i] = "none"
    /\ rPc' = [rPc EXCEPT ![i] = "stored"]
    /\ rPath' = [rPath EXCEPT ![i] = path]
    /\ rProxies' = [rProxies EXCEPT ![path] = i]
    /\ lk' = Disturbed
    /\ UNCHANGED rAliases
    /\ UNCHANGED outsideRegistry

\* unaliasProxy: the alias stored under the key path is deleted
unaliasProxy(path) == [rAliases EXCEPT ![path] = ""]

\* registerProxy, its second statement: s.unaliasProxy(p.Path)
RegisterUnalias(i) ==
    /\ rPc[i] = "stored"
    /\ rPc' = [rPc EXCEPT ![i] = "registered"]
    /\ rAliases' = unaliasProxy(rPath[i])
    /\ lk' = Disturbed
    /\ UNCHANGED <<rProxies, rPath>>
    /\ UNCHANGED outsideRegistry

\* a Delete that leaves the entry in the map
DeleteNothing(path) == rProxies

\* s.proxies.Delete(path)
DeleteProxy(path) == [rProxies EXCEPT ![path] = 0]

\* deregisterProxy, its first statement: s.proxies.Delete(p.Path)
DeregisterDelete(i) ==
    /\ rPc[i] = "registered"
    /\ rPc' = [rPc EXCEPT ![i] = "deleted"]
    /\ rProxies' = DeleteProxy(rPath[i])
    /\ lk' = Disturbed
    /\ UNCHANGED <<rAliases, rPath>>
    /\ UNCHANGED outsideRegistry

\* deregisterProxy, its second statement: s.unaliasProxy(p.Path)
DeregisterUnalias(i) ==
    /\ rPc[i] = "deleted"
    /\ rPc' = [rPc EXCEPT ![i] = "gone"]
    /\ rAliases' = unaliasProxy(rPath[i])
    /\ lk' = Disturbed
    /\ UNCHANGED <<rProxies, rPath>>
    /\ UNCHANGED outsideRegistry

\* aliasProxy(from, to): s.aliases.Store(from, to)
aliasProxy(from, to) ==
    /\ from # to
    /\ rAliases[from] # to
    /\ rAliases' = [rAliases EXCEPT ![from] = to]
    /\ lk' = Disturbed
    /\ UNCHANGED <<rProxies, rPc, rPath>>
    /\ UNCHANGED outsideRegistry

\* the Proxies whose deregisterProxy has returned
Gone == {i \in Regs : rPc[i] = "gone"}

\* what the registry holds for a path: the Proxy stored under it, else the
\* Proxy stored under the path it is an alias of, else 0
Registered(path) ==
    IF rProxies[path] # 0 THEN rProxies[path]
    ELSE IF rAliases[path] # "" THEN rProxies[rAliases[path]]
    ELSE 0

\* lookupProxy(path), its first statement: s.proxies.Load(path); a hit is
\* returned, a miss goes on to the aliases
LookupLoad(path) ==
    /\ lk.pc \in {"none", "done"}
    /\ lk' = [pc |-> IF rProxies[path] # 0 THEN "done" ELSE "range",
              path |-> path, alias |-> "", result |-> rProxies[path],
              gone |-> Gone, held |-> Registered(path), quiet |-> TRUE]
    /\ UNCHANGED <<rProxies, rAliases, rPc, rPath>>
    /\ UNCHANGED outsideRegistry

\* lookupProxy, the Range over s.aliases: the value stored under the key
\* path is collected; without one the lookup fails
LookupRange ==
    /\ lk.pc = "range"
    /\ lk' = [lk EXCEPT !.alias = rAliases[lk.path],
                        !.pc = IF rAliases[lk.path] = "" THEN "done" ELSE "load"]
    /\ UNCHANGED <<rProxies, rAliases, rPc, rPath>>
    /\ UNCHANGED outsideRegistry

\* lookupProxy, the loop over the aliases: s.proxies.Load(alias)
LookupAlias ==
    /\ lk.pc = "load"
    /\ lk' = [lk EXCEPT !.result = rProxies[lk.alias], !.pc = "done"]
    /\ UNCHANGED <<rProxies, rAliases, rPc, rPath>>
    /\ UNCHANGED outsideRegistry

RegistryNext ==
    \/ \E i \in Regs, path \in RegPaths : RegisterStore(i, path)
    \/ \E i \in Regs : RegisterUnalias(i)
    \/ \E i \in Regs : DeregisterDelete(i)
    \/ \E i \in Regs : DeregisterUnalias(i)
    \/ \E from \in RegKeys, to \in RegPaths : aliasProxy(from, to)
    \/ \E path \in RegKeys : LookupLoad(path)
    \/ LookupRange
    \/ LookupAlias

RegistrySpec == Init /\ [][RegistryNext]_vars

\* C22: a lookup that no registry operation ran beside returns the Proxy
\* stored under its path, else the Proxy stored under the path it is an
\* alias of, else nothing (an error); and no lookup, quiet or not, returns a
\* Proxy whose deregisterProxy had returned when the lookup began.
LookupFindsRegistered ==
    /\ (lk.pc = "done" /\ lk.quiet) => lk.result = lk.held
    /\ lk.pc = "done" => lk.result \notin lk.gone

AliasedLookupAfterDeregister ==
    /\ lk.pc = "done"
    /\ lk.alias # ""
    /\ lk.result # 0
    /\ lk.gone # {}
    /\ \E i \in lk.gone : rPath[i] = rPath[lk.result]

(***************************************************************************)
(* Expectation.Check on its own, with a stdin matcher                      *)
(***************************************************************************)
\* Expectation.stdin when WithStdin was not called, and readStdin when no
\* stdin was captured (string(nil))
NoMatcher == "<none>"
NilStdin == ""

StdinMatchers == {NoMatcher, MatchAnyAtom, "a", "b"}
CapturedStdin == {NilStdin, "a", "b"}

\* the Expectations of TestCheckIndividualExpectations and
\* TestExpectionWithStdin: any bounds, any count, any matcher
ProbedExpectations ==
    [minCalls : CountChoices, maxCalls : CountChoices, totalCalls : 0..MaxTotal,
     stdin : StdinMatchers, readStdin : CapturedStdin]

\* Expectation.Check of the version with WithStdin: the call counts first,
\* then the captured stdin against the matcher, one Logf line for the first
\* failure
ExpectationCheckStdin(e) ==
    IF ~ExpectationCheck(e).ok THEN ExpectationCheck(e)
    ELSE IF e.stdin # NoMatcher /\ ~AtomAccepts(e.stdin, e.readStdin)
    THEN [ok |-> FALSE, logs |-> 1]
    ELSE [ok |-> TRUE, logs |-> 0]

CheckExpectation(e) ==
    /\ probe' = [made |-> TRUE, e |-> e, out |-> ExpectationCheckStdin(e)]
    /\ UNCHANGED outsideProbe

CheckNext == \E e \in ProbedExpectations : CheckExpectation(e)

CheckSpec == Init /\ [][CheckNext]_vars

\* C24: Expectation.Check passes iff totalCalls is at least minCalls unless
\* that is unbounded, at most maxCalls unless that is unbounded, and the
\* captured stdin satisfies the stdin matcher if one was set (MatchAny
\* accepts everything, a literal only itself and so not a stdin that was
\* never captured); a Check that fails writes exactly one Logf line and one
\* that passes none.
ProbePasses ==
    LET e == probe.e
    IN  /\ e.minCalls = InfiniteTimes \/ e.totalCalls >= e.minCalls
        /\ e.maxCalls = InfiniteTimes \/ e.totalCalls <= e.maxCalls
        /\ e.stdin = NoMatcher \/ e.stdin = MatchAnyAtom \/ e.stdin = e.readStdin

ExpectationCheckVerdict ==
    probe.made =>
        /\ probe.out.ok <=> ProbePasses
        /\ probe.out.logs = IF probe.out.ok THEN 0 ELSE 1

LiteralAgainstNoStdinFails ==
    /\ probe.made
    /\ probe.e.stdin = "a"
    /\ probe.e.readStdin = NilStdin
    /\ probe.e.totalCalls = 1
    /\ probe.e.minCalls = 1
    /\ probe.e.maxCalls = 1
    /\ ~probe.out.ok
    /\ probe.out.logs = 1

(***************************************************************************)
(* The reaction of an Expectation: its setters and the end of invoke       *)
(***************************************************************************)
\* the command exec.LookPath finds for the Mock, and one given to
\* AndPassthroughToLocalCommand
MockCommand == "/bin/mock"
LocalCommand == "/bin/local"

\* Mock.PassthroughToLocalCommand
PassthroughToLocalCommand ==
    /\ mPass = ""
    /\ mPass' = MockCommand
    /\ UNCHANGED <<ex, bLast, bSet, bHist, bReacts>>
    /\ UNCHANGED outsideBuilder

\* Mock.Expect: the Expectation starts with empty buffers, exit code 0 and
\* the passthrough path of the Mock
BExpect ==
    /\ ~ex.declared
    /\ ex' = [declared |-> TRUE, passthroughPath |-> mPass, callFunc |-> FALSE,
              exitCode |-> 0, writeStdout |-> <<>>, writeStderr |-> <<>>]
    /\ bHist' = [bHist EXCEPT !.inherited = mPass]
    /\ UNCHANGED <<mPass, bLast, bSet, bReacts>>
    /\ UNCHANGED outsideBuilder

\* a setter that leaves the passthrough path as it is
KeptPath == ex.passthroughPath

\* e.passthroughPath = ""
ClearedPath == ""

\* the n-th setter gives a value of its own: the exit code n, the byte n
CanSet == ex.declared /\ bSet < MaxSetters
Given == bSet + 1

AndExitWith ==
    /\ CanSet
    /\ ex' = [ex EXCEPT !.exitCode = Given, !.passthroughPath = ClearedPath]
    /\ bHist' = [bHist EXCEPT !.code = Given]
    /\ bLast' = "AndExitWith"
    /\ bSet' = Given
    /\ UNCHANGED <<mPass, bReacts>>
    /\ UNCHANGED outsideBuilder

\* e.writeStdout.WriteString(s) appends to the buffer
AndWriteToStdout ==
    /\ CanSet
    /\ ex' = [ex EXCEPT !.writeStdout = Append(@, Given), !.passthroughPath = ClearedPath]
    /\ bHist' = [bHist EXCEPT !.out = Append(@, Given)]
    /\ bLast' = "AndWriteToStdout"
    /\ bSet' = Given
    /\ UNCHANGED <<mPass, bReacts>>
    /\ UNCHANGED outsideBuilder

AndWriteToStderr ==
    /\ CanSet
    /\ ex' = [ex EXCEPT !.writeStderr = Append(@, Given), !.passthroughPath = ClearedPath]
    /\ bHist' = [bHist EXCEPT !.err = Append(@, Given)]
    /\ bLast' = "AndWriteToStderr"
    /\ bSet' = Given
    /\ UNCHANGED <<mPass, bReacts>>
    /\ UNCHANGED outsideBuilder

\* what had been configured when a passthrough or a handler was set
Superseded ==
    [bHist EXCEPT !.everPass = TRUE,
                  !.staleBytes = {bHist.out[i] : i \in 1..Len(bHist.out)}
                                 \cup {bHist.err[i] : i \in 1..Len(bHist.err)},
                  !.staleCodes = IF bHist.code = 0 THEN @ ELSE @ \cup {bHist.code}]

AndPassthroughToLocalCommand ==
    /\ CanSet
    /\ ex' = [ex EXCEPT !.passthroughPath = LocalCommand]
    /\ bHist' = Superseded
    /\ bLast' = "AndPassthroughToLocalCommand"
    /\ bSet' = Given
    /\ UNCHANGED <<mPass, bReacts>>
    /\ UNCHANGED outsideBuilder

AndCallFunc ==
    /\ CanSet
    /\ ex' = [ex EXCEPT !.callFunc = TRUE, !.passthroughPath = ClearedPath]
    /\ bHist' = Superseded
    /\ bLast' = "AndCallFunc"
    /\ bSet' = Given
    /\ UNCHANGED <<mPass, bReacts>>
    /\ UNCHANGED outsideBuilder

\* io.Copy(call.Stdout, expected.writeStdout) reads the *bytes.Buffer to its
\* end: what was read is no longer in the buffer
AfterCopy(buf) == <<>>

\* the end of Mock.invoke for a Call matched to the Expectation: passthrough
\* of the Mock, passthrough of the Expectation, the handler, or the bytes
\* and the exit code
Reaction ==
    IF mPass # "" THEN [kind |-> "passthrough", path |-> mPass]
    ELSE IF ex.passthroughPath # "" THEN [kind |-> "passthrough", path |-> ex.passthroughPath]
    ELSE IF ex.callFunc THEN [kind |-> "callFunc"]
    ELSE [kind |-> "bytes", stdout |-> ex.writeStdout, stderr |-> ex.writeStderr,
          exit |-> ex.exitCode, hist |-> bHist]

React ==
    /\ ex.declared
    /\ Len(bReacts) < MaxReact
    /\ bReacts' = Append(bReacts, Reaction)
    /\ ex' = IF Reaction.kind = "bytes"
             THEN [ex EXCEPT !.writeStdout = AfterCopy(@), !.writeStderr = AfterCopy(@)]
             ELSE ex
    /\ UNCHANGED <<mPass, bLast, bSet, bHist>>
    /\ UNCHANGED outsideBuilder

BuilderNext ==
    \/ PassthroughToLocalCommand
    \/ BExpect
    \/ AndExitWith
    \/ AndWriteToStdout
    \/ AndWriteToStderr
    \/ AndPassthroughToLocalCommand
    \/ AndCallFunc
    \/ React

BuilderSpec == Init /\ [][BuilderNext]_vars

\* C25: when the reaction setter called last on an Expectation is
\* AndExitWith, AndWriteToStdout, AndWriteToStderr or AndCallFunc, its
\* passthrough path is empty, whatever was set before and whatever it
\* inherited from the Mock.
PassthroughClearedBySetters ==
    (ex.declared /\ bLast \in {"AndExitWith", "AndWriteToStdout", "AndWriteToStderr", "AndCallFunc"})
        => ex.passthroughPath = ""

InheritedPassthroughCleared ==
    /\ ex.declared
    /\ bHist.inherited = MockCommand
    /\ bLast = "AndExitWith"
    /\ ex.passthroughPath = ""

\* C26: a bytes-and-exit reaction emits no byte and uses no exit code that
\* was given before a passthrough or a handler was set on the Expectation.
BytesOf(q) == {q[i] : i \in 1..Len(q)}

NoSupersededBytes ==
    \A k \in 1..Len(bReacts) :
        bReacts[k].kind = "bytes" =>
            /\ BytesOf(bReacts[k].stdout) \cap bReacts[k].hist.staleBytes = {}
            /\ BytesOf(bReacts[k].stderr) \cap bReacts[k].hist.staleBytes = {}
            /\ bReacts[k].exit \notin bReacts[k].hist.staleCodes

\* C27: every bytes-and-exit reaction of an Expectation that never had a
\* passthrough or a handler emits all the stdout bytes and all the stderr
\* bytes given to it and exits with the code given last, the first reaction
\* and every later one.
FullBytesEveryCall ==
    \A k \in 1..Len(bReacts) :
        (bReacts[k].kind = "bytes" /\ ~bReacts[k].hist.everPass) =>
            /\ bReacts[k].stdout = bReacts[k].hist.out
            /\ bReacts[k].stderr = bReacts[k].hist.err
            /\ bReacts[k].exit = bReacts[k].hist.code

(***************************************************************************)
(* Call.Passthrough, Call.PassthroughWithTimeout, Call.Fatal               *)
(***************************************************************************)
\* exit statuses of the local command (24: TestProxyWithPassthroughWithFailingCommand)
ChildCodes == {0, 3, 24}
\* WaitStatus.ExitStatus() of a child that was ended by a signal
SignalStatus == -1

\* Passthrough (a context without deadline) or PassthroughWithTimeout, for
\* the next Call
PassthroughBegin(timeout) ==
    /\ ptPc \in {"idle", "done"}
    /\ ptN < MaxPass
    /\ ptN' = ptN + 1
    /\ ptPc' = "start"
    /\ ptTimeout' = timeout
    /\ ptDeadline' = FALSE
    /\ ptChild' = "none"
    /\ ptStatus' = 0
    /\ ptCopied' = FALSE
    /\ ptExits' = <<>>
    /\ UNCHANGED outsidePass

\* the deadline of the context elapses: exec.CommandContext kills a child
\* that is still running
DeadlineElapses ==
    /\ ptPc \in {"start", "wait"}
    /\ ptTimeout
    /\ ~ptDeadline
    /\ ptDeadline' = TRUE
    /\ ptChild' = IF ptChild = "running" THEN "killed" ELSE ptChild
    /\ UNCHANGED <<ptPc, ptTimeout, ptStatus, ptCopied, ptExits, ptN>>
    /\ UNCHANGED outsidePass

\* Call.Fatal for an error that is no *exec.ExitError
FatalCode == 1

\* cmd.Start: it fails for a command that cannot be started and for a
\* context that is done already; then c.Fatal(err)
CmdStart(ok) ==
    /\ ptPc = "start"
    /\ IF ok /\ ~ptDeadline
       THEN /\ ptPc' = "wait"
            /\ ptChild' = "running"
            /\ UNCHANGED ptExits
       ELSE /\ ptPc' = "done"
            /\ ptExits' = Append(ptExits, FatalCode)
            /\ UNCHANGED ptChild
    /\ UNCHANGED <<ptTimeout, ptDeadline, ptStatus, ptCopied, ptN>>
    /\ UNCHANGED outsidePass

\* the child exits by itself
ChildExits(code) ==
    /\ ptChild = "running"
    /\ ptChild' = "exited"
    /\ ptStatus' = code
    /\ UNCHANGED <<ptPc, ptTimeout, ptDeadline, ptCopied, ptExits, ptN>>
    /\ UNCHANGED outsidePass

\* the child is ended by a signal that is not the kill of the context
ChildSignalled ==
    /\ ptChild = "running"
    /\ ptChild' = "signalled"
    /\ ptStatus' = SignalStatus
    /\ UNCHANGED <<ptPc, ptTimeout, ptDeadline, ptCopied, ptExits, ptN>>
    /\ UNCHANGED outsidePass

\* the goroutines that copy the child's stdout and stderr to the Call reach
\* the end of their pipes, which cmd.Wait waits for
CopyEnds ==
    /\ ptChild \in {"exited", "signalled", "killed"}
    /\ ~ptCopied
    /\ ptCopied' = TRUE
    /\ UNCHANGED <<ptPc, ptTimeout, ptDeadline, ptChild, ptStatus, ptExits, ptN>>
    /\ UNCHANGED outsidePass

\* ctx.Err() == context.DeadlineExceeded
DeadlineExceeded == ptDeadline

\* cmd.Wait returns: nil for a child that exited with 0, else an error and
\* Fatal, with the deadline error when the context says so and else with
\* the *exec.ExitError
WaitExit ==
    IF ptChild = "exited" /\ ptStatus = 0 THEN 0
    ELSE IF DeadlineExceeded THEN FatalCode
    ELSE ptStatus

CmdWaitReturns ==
    /\ ptPc = "wait"
    /\ ptChild \in {"exited", "signalled", "killed"}
    /\ ptCopied
    /\ ptExits' = Append(ptExits, WaitExit)
    /\ ptPc' = "done"
    /\ UNCHANGED <<ptTimeout, ptDeadline, ptChild, ptStatus, ptCopied, ptN>>
    /\ UNCHANGED outsidePass

PassNext ==
    \/ \E timeout \in BOOLEAN : PassthroughBegin(timeout)
    \/ DeadlineElapses
    \/ \E ok \in BOOLEAN : CmdStart(ok)
    \/ \E code \in ChildCodes : ChildExits(code)
    \/ ChildSignalled
    \/ CopyEnds
    \/ CmdWaitReturns

PassSpec == Init /\ [][PassNext]_vars

\* C29: a passthrough that has returned has called Exit exactly once: with 0
\* when the child succeeded, with the child's exit status when it exited
\* non-zero, with 1 when the child could not be started, and with 1 when the
\* child was killed because the deadline elapsed.
PassthroughExitsOnce ==
    /\ ptPc \in {"start", "wait"} => ptExits = <<>>
    /\ ptPc = "done" =>
          /\ Len(ptExits) = 1
          /\ (ptChild = "exited" /\ ptStatus = 0) => ptExits[1] = 0
          /\ (ptChild = "exited" /\ ptStatus # 0) => ptExits[1] = ptStatus
          /\ ptChild = "none" => ptExits[1] = 1
          /\ ptChild = "killed" => ptExits[1] = 1

(***************************************************************************)
(* compileClient, compileCache.IsCached, replaceSymlink                    *)
(***************************************************************************)
\* a compileClient that takes no lock
LockIgnored == TRUE

\* serverLock.Lock() returns
LockFree == cLock = 0

\* compileClient(dest, vars): serverLock.Lock(), then the cache file of vars
CompileClientBegin(g, key, dest) ==
    /\ cPc[g] = "idle"
    /\ cN < MaxProductions
    /\ LockFree
    /\ cLock' = g
    /\ cN' = cN + 1
    /\ cKey' = [cKey EXCEPT ![g] = key]
    /\ cDest' = [cDest EXCEPT ![g] = dest]
    /\ cPc' = [cPc EXCEPT ![g] = "check"]
    /\ UNCHANGED <<cacheWrites, temps, links, lateWrite>>
    /\ UNCHANGED outsideCompile

\* compileCache.IsCached: os.Stat of the cache file succeeds
IsCached(key) == cacheWrites[key] > 0

CacheCheck(g) ==
    /\ cPc[g] = "check"
    /\ cPc' = [cPc EXCEPT ![g] = IF IsCached(cKey[g]) THEN "symlink" ELSE "compile"]
    /\ UNCHANGED <<cLock, cKey, cDest, cacheWrites, temps, links, lateWrite, cN>>
    /\ UNCHANGED outsideCompile

\* the deferred serverLock.Unlock()
Unlocked(g) == IF cLock = g THEN 0 ELSE cLock

\* compile(cacheBinaryPath, f, vars): go build -o writes the cache file, or
\* fails and compileClient returns the error
CompileStep(g, ok) ==
    /\ cPc[g] = "compile"
    /\ IF ok
       THEN /\ cacheWrites' = [cacheWrites EXCEPT ![cKey[g]] = @ + 1]
            /\ lateWrite' = (lateWrite \/ \E t \in Dests : links[t] = cKey[g])
            /\ cPc' = [cPc EXCEPT ![g] = "symlink"]
            /\ UNCHANGED cLock
       ELSE /\ cPc' = [cPc EXCEPT ![g] = "idle"]
            /\ cLock' = Unlocked(g)
            /\ UNCHANGED <<cacheWrites, lateWrite>>
    /\ UNCHANGED <<cKey, cDest, temps, links, cN>>
    /\ UNCHANGED outsideCompile

\* replaceSymlink: os.Symlink(oldname, tempname); it fails when the random
\* name exists, and compileClient returns the error
SymlinkStep(g, ok) ==
    /\ cPc[g] = "symlink"
    /\ IF ok
       THEN /\ temps' = [temps EXCEPT ![g] = cKey[g]]
            /\ cPc' = [cPc EXCEPT ![g] = "rename"]
            /\ UNCHANGED cLock
       ELSE /\ cPc' = [cPc EXCEPT ![g] = "idle"]
            /\ cLock' = Unlocked(g)
            /\ UNCHANGED temps
    /\ UNCHANGED <<cKey, cDest, cacheWrites, links, lateWrite, cN>>
    /\ UNCHANGED outsideCompile

\* replaceSymlink: os.Rename(tempname, newname), and compileClient returns
RenameStep(g) ==
    /\ cPc[g] = "rename"
    /\ links' = [links EXCEPT ![cDest[g]] = temps[g]]
    /\ temps' = [temps EXCEPT ![g] = 0]
    /\ cPc' = [cPc EXCEPT ![g] = "idle"]
    /\ cLock' = Unlocked(g)
    /\ UNCHANGED <<cKey, cDest, cacheWrites, lateWrite, cN>>
    /\ UNCHANGED outsideCompile

CompileNext ==
    \/ \E g \in Compilers, key \in CacheKeys, dest \in Dests :
          CompileClientBegin(g, key, dest)
    \/ \E g \in Compilers : CacheCheck(g)
    \/ \E g \in Compilers, ok \in BOOLEAN : CompileStep(g, ok)
    \/ \E g \in Compilers, ok \in BOOLEAN : SymlinkStep(g, ok)
    \/ \E g \in Compilers : RenameStep(g)

CompileSpec == Init /\ [][CompileNext]_vars

\* every cache file is written at most once, never while a destination
\* points to it, and a destination points to a written cache file
CompiledOnce ==
    /\ \A k \in CacheKeys : cacheWrites[k] <= 1
    /\ ~lateWrite
    /\ \A t \in Dests : links[t] # 0 => cacheWrites[links[t]] = 1

\* a destination changes only when a temporary symlink is renamed onto it
PublishedByRename ==
    \A t \in Dests :
        links'[t] # links[t] =>
            \E g \in Compilers :
                /\ cDest[g] = t
                /\ temps[g] = links'[t]
                /\ temps[g] # 0
                /\ temps'[g] = 0

\* C30: under every interleaving of concurrent shim productions each cache
\* entry is compiled at most once, a destination is published only by the
\* rename of a symlink onto it, and no cache file that a published
\* destination points to is written after the publication.
CompiledOnceThenPublished == []CompiledOnce /\ [][PublishedByRename]_vars

\* two destinations point to one cache entry, which was compiled once
SharedCacheEntry ==
    /\ links[1] = 1
    /\ links[2] = 1
    /\ cacheWrites[1] = 1
    /\ cN >= 2

(***************************************************************************)
(* NewMock's dispatcher, Mock.invoke and Mock.Check under the Mock's lock  *)
(***************************************************************************)
\* the places of Mock.invoke between m.Lock() and the deferred m.Unlock()
InsideInvoke == {"before", "match", "stdin", "react", "count", "append"}

\* a panic in the dispatcher goroutine ends the test process
Crashed == \E c \in DCalls : dPc[c] = "panicked"

\* a dispatcher that starts every invoke at once and takes no lock
InvokeAtOnce == TRUE

\* for call := range m.proxy.Ch { m.invoke(call) } with m.Lock() in invoke:
\* the next invoke starts when the last has returned and the lock is free
InvokeInTurn == \A c \in DCalls : dPc[c] \notin InsideInvoke

\* a Check that does not wait for the lock
CheckWithoutLock == TRUE

\* m.Lock() in Check returns
CheckMayLock == \A c \in DCalls : dPc[c] \notin InsideInvoke

\* Expect: maxCalls of a new Expectation
OneCall == 1

\* the shim posts /calls/new and its handler sends the Call on Proxy.Ch
DArrive(c) ==
    /\ ~Crashed
    /\ dPc[c] = "none"
    /\ dPc' = [dPc EXCEPT ![c] = "queued"]
    /\ UNCHANGED <<dMatched, dExits, dTotal, dInv, shimGone, chkPc, chkAfter, chkSnap>>
    /\ UNCHANGED outsideDispatch

\* the dispatcher receives the Call; invoke takes the lock
InvokeBegin(c) ==
    /\ ~Crashed
    /\ dPc[c] = "queued"
    /\ InvokeInTurn
    /\ dPc' = [dPc EXCEPT ![c] = "before"]
    /\ UNCHANGED <<dMatched, dExits, dTotal, dInv, shimGone, chkPc, chkAfter, chkSnap>>
    /\ UNCHANGED outsideDispatch

\* Call.Exit as the dispatcher calls it: the second Exit on a Call panics,
\* the first returns when the shim has the exit code
DExitPanics(c) == dExits[c] >= 1

\* the before funcs: one fails (Exit(1), return) or none does
InvokeBefore(c, fails) ==
    /\ ~Crashed
    /\ dPc[c] = "before"
    /\ IF fails
       THEN /\ dExits' = [dExits EXCEPT ![c] = @ + 1]
            /\ shimGone' = shimGone \cup {c}
            /\ dPc' = [dPc EXCEPT ![c] = "done"]
       ELSE /\ dPc' = [dPc EXCEPT ![c] = "match"]
            /\ UNCHANGED <<dExits, shimGone>>
    /\ UNCHANGED <<dMatched, dTotal, dInv, chkPc, chkAfter, chkSnap>>
    /\ UNCHANGED outsideDispatch

\* ForArguments and Match: the Expectation is found while its totalCalls is
\* below maxCalls; else the invocation is recorded, Exit is called and invoke
\* returns
InvokeMatch(c) ==
    /\ ~Crashed
    /\ dPc[c] = "match"
    /\ IF dTotal < OneCall
       THEN /\ dMatched' = [dMatched EXCEPT ![c] = TRUE]
            /\ dPc' = [dPc EXCEPT ![c] = "stdin"]
            /\ UNCHANGED <<dInv, dExits, shimGone>>
       ELSE /\ dInv' = Append(dInv, [call |-> c, matched |-> FALSE])
            /\ dExits' = [dExits EXCEPT ![c] = @ + 1]
            /\ shimGone' = shimGone \cup {c}
            /\ dPc' = [dPc EXCEPT ![c] = "done"]
            /\ UNCHANGED dMatched
    /\ UNCHANGED <<dTotal, chkPc, chkAfter, chkSnap>>
    /\ UNCHANGED outsideDispatch

\* if expected.stdin != nil: io.ReadAll(call.Stdin); on an error Exit(1) is
\* called and invoke goes on
InvokeStdin(c, readErr) ==
    /\ ~Crashed
    /\ dPc[c] = "stdin"
    /\ IF readErr
       THEN /\ dExits' = [dExits EXCEPT ![c] = @ + 1]
            /\ shimGone' = shimGone \cup {c}
       ELSE UNCHANGED <<dExits, shimGone>>
    /\ dPc' = [dPc EXCEPT ![c] = "react"]
    /\ UNCHANGED <<dMatched, dTotal, dInv, chkPc, chkAfter, chkSnap>>
    /\ UNCHANGED outsideDispatch

\* the reactions that are no user handler: the canned bytes and Exit, or
\* PassthroughWithTimeout, which ends in Exit or Fatal
Reactions == {"canned", "passthrough", "passthrough fails", "passthrough timeout"}

InvokeReact(c, reaction) ==
    /\ ~Crashed
    /\ dPc[c] = "react"
    /\ IF DExitPanics(c)
       THEN /\ dPc' = [dPc EXCEPT ![c] = "panicked"]
            /\ UNCHANGED <<dExits, shimGone>>
       ELSE /\ dExits' = [dExits EXCEPT ![c] = @ + 1]
            /\ shimGone' = shimGone \cup {c}
            /\ dPc' = [dPc EXCEPT ![c] = "count"]
    /\ UNCHANGED <<dMatched, dTotal, dInv, chkPc, chkAfter, chkSnap>>
    /\ UNCHANGED outsideDispatch

\* expected.totalCalls++
InvokeCount(c) ==
    /\ ~Crashed
    /\ dPc[c] = "count"
    /\ dTotal' = dTotal + 1
    /\ dPc' = [dPc EXCEPT ![c] = "append"]
    /\ UNCHANGED <<dMatched, dExits, dInv, shimGone, chkPc, chkAfter, chkSnap>>
    /\ UNCHANGED outsideDispatch

\* m.invocations = append(m.invocations, invocation); invoke returns
InvokeAppend(c) ==
    /\ ~Crashed
    /\ dPc[c] = "append"
    /\ dInv' = Append(dInv, [call |-> c, matched |-> TRUE])
    /\ dPc' = [dPc EXCEPT ![c] = "done"]
    /\ UNCHANGED <<dMatched, dExits, dTotal, shimGone, chkPc, chkAfter, chkSnap>>
    /\ UNCHANGED outsideDispatch

\* test code calls m.Check(t), which waits in m.Lock()
CheckCalled ==
    /\ ~Crashed
    /\ chkPc \in {"none", "done"}
    /\ chkPc' = "waiting"
    /\ chkAfter' = shimGone
    /\ UNCHANGED <<dPc, dMatched, dExits, dTotal, dInv, shimGone, chkSnap>>
    /\ UNCHANGED outsideDispatch

\* Check holds the lock: it reads the Expectations and m.invocations
CheckReads ==
    /\ ~Crashed
    /\ chkPc = "waiting"
    /\ CheckMayLock
    /\ chkSnap' = [total |-> dTotal, inv |-> dInv]
    /\ chkPc' = "done"
    /\ UNCHANGED <<dPc, dMatched, dExits, dTotal, dInv, shimGone, chkAfter>>
    /\ UNCHANGED outsideDispatch

DispatchNext ==
    \/ \E c \in DCalls : DArrive(c)
    \/ \E c \in DCalls : InvokeBegin(c)
    \/ \E c \in DCalls, fails \in BOOLEAN : InvokeBefore(c, fails)
    \/ \E c \in DCalls : InvokeMatch(c)
    \/ \E c \in DCalls, readErr \in BOOLEAN : InvokeStdin(c, readErr)
    \/ \E c \in DCalls, reaction \in Reactions : InvokeReact(c, reaction)
    \/ \E c \in DCalls : InvokeCount(c)
    \/ \E c \in DCalls : InvokeAppend(c)
    \/ CheckCalled
    \/ CheckReads

DispatchSpec == Init /\ [][DispatchNext]_vars

\* the matched Calls among cs
MatchedIn(cs) == {c \in cs : dMatched[c]}

\* C31: a Check that was called after the system-under-test saw the shim of
\* a matched Call exit has read that Call's totalCalls increment and its
\* Invocation record.
CheckSeesExitedCalls ==
    chkPc = "done" =>
        /\ chkSnap.total >= Cardinality(MatchedIn(chkAfter))
        /\ \A c \in MatchedIn(chkAfter) :
              \E i \in 1..Len(chkSnap.inv) : chkSnap.inv[i] = [call |-> c, matched |-> TRUE]

\* a Check that was called while invoke had returned from Exit but had not
\* yet counted the Call, and that read the count
CheckWaitedForCount ==
    /\ chkPc = "done"
    /\ MatchedIn(chkAfter) # {}
    /\ \E c \in MatchedIn(chkAfter) : Len(chkSnap.inv) >= 1 /\ chkSnap.inv[Len(chkSnap.inv)].call = c
    /\ chkSnap.total = 1

\* invocations recorded as matched, and as unmatched
MatchedRecords == {i \in 1..Len(dInv) : dInv[i].matched}
UnmatchedRecords == {i \in 1..Len(dInv) : ~dInv[i].matched}

\* C37: the Mock reacts to one Call at a time: at most one Call is inside
\* invoke, the Expectation with one remaining call is never counted twice,
\* and when two Calls that passed the before funcs have both been handled,
\* exactly one invocation is matched and one is unmatched.
OneCallAtATime ==
    /\ Cardinality({c \in DCalls : dPc[c] \in InsideInvoke}) <= 1
    /\ dTotal <= OneCall
    /\ Cardinality(MatchedRecords) <= OneCall
    /\ \A c, d \in DCalls :
          (c # d /\ dPc[c] = "done" /\ dPc[d] = "done" /\ dExits[c] = 1 /\ dExits[d] = 1
              /\ Len(dInv) = 2)
          => Cardinality(MatchedRecords) = 1 /\ Cardinality(UnmatchedRecords) = 1

\* two Calls were queued together; one was matched and the other was not
OneMatchedOneUnmatched ==
    /\ dPc[1] = "done"
    /\ dPc[2] = "done"
    /\ dMatched[2]
    /\ ~dMatched[1]
    /\ Len(dInv) = 2
    /\ dInv[1] = [call |-> 2, matched |-> TRUE]
    /\ dInv[2] = [call |-> 1, matched |-> FALSE]

SeqsUpTo(S, n) == UNION {[1..k -> S] : k \in 0..n}

ExpectedArgs == SeqsUpTo({"a", "b", MatchAnyAtom}, MaxArgs)
ActualArgs == SeqsUpTo({"a", "b"}, MaxArgs)

\* expected.Match(actual...)
MatchArguments(a, x) ==
    /\ mres.op = "none"
    /\ mres' = [op |-> "args", a |-> a, x |-> x, IsMatch |-> ArgumentsMatch(a, x),
                MatchCount |-> MatchCount(a, x)]
    /\ UNCHANGED outsideMatch

\* environment entries and required entries, as their characters
EnvEntries ==
    {<<"K", "=", "a">>, <<"k", "=", "a">>, <<"K", "=", "b">>, <<"J", "=", "a">>,
     <<"K", "=", "a", "=", "b">>, <<"K", "=", "a", "=", "c">>}

\* strings.ToUpper
UpperChar(c) == IF c = "k" THEN "K" ELSE IF c = "j" THEN "J" ELSE c
ToUpper(q) == [i \in 1..Len(q) |-> UpperChar(q[i])]

\* the position of the first "=" of q from i on, or Len(q) + 1
RECURSIVE FirstEq(_, _)
FirstEq(q, i) ==
    IF i > Len(q) THEN Len(q) + 1
    ELSE IF q[i] = "=" THEN i
    ELSE FirstEq(q, i + 1)

\* a Split that cuts at the first "=" only
SplitOnce(q) ==
    LET k == FirstEq(q, 1)
    IN  IF k > Len(q) THEN <<q>> ELSE <<Prefix(q, k - 1), Suffix(q, k)>>

\* strings.Split(e, "="): the pieces between every two "="
RECURSIVE SplitFrom(_, _)
SplitFrom(q, i) ==
    LET k == FirstEq(q, i)
    IN  IF k > Len(q) THEN <<SubSeq(q, i, Len(q))>>
        ELSE <<SubSeq(q, i, k - 1)>> \o SplitFrom(q, k + 1)

Split(q) == SplitFrom(q, 1)

\* GetEnv(key, environ): pair[1] of the first entry whose pair[0] equals key
\* ignoring case
GetEnv(key, environ) ==
    LET hits == {i \in 1..Len(environ) : ToUpper(Split(environ[i])[1]) = ToUpper(key)}
    IN  IF hits = {} THEN [ok |-> FALSE, val |-> <<>>]
        ELSE [ok |-> TRUE,
              val |-> Split(environ[CHOOSE i \in hits : \A j \in hits : i <= j])[2]]

\* one round of the loop of env.Match: the required entry counts
Satisfied(e, environ) ==
    LET pair == Split(e)
        got == GetEnv(pair[1], environ)
    IN  got.ok /\ got.val = pair[2]

\* env.Match(expect...)
EnvMatch(environ, expect) ==
    LET n == Cardinality({i \in 1..Len(expect) : Satisfied(expect[i], environ)})
    IN  [IsMatch |-> n = Len(expect), MatchCount |-> n]

MatchEnv(environ, expect) ==
    /\ mres.op = "none"
    /\ mres' = [op |-> "env", a |-> expect, x |-> environ,
                IsMatch |-> EnvMatch(environ, expect).IsMatch,
                MatchCount |-> EnvMatch(environ, expect).MatchCount]
    /\ UNCHANGED outsideMatch

MatchNext ==
    \/ \E a \in ExpectedArgs, x \in ActualArgs : MatchArguments(a, x)
    \/ \E environ \in SeqsUpTo(EnvEntries, MaxEnv), expect \in SeqsUpTo(EnvEntries, MaxRequired) :
          MatchEnv(environ, expect)

MatchSpec == Init /\ [][MatchNext]_vars

\* C34: Arguments.Match succeeds iff both vectors have the same length and
\* every expected atom accepts the actual argument at its position; so the
\* empty expected vector matches the empty actual vector only.
ArgumentsMatchExactly ==
    mres.op = "args" =>
        /\ mres.IsMatch <=>
              /\ Len(mres.x) = Len(mres.a)
              /\ \A i \in 1..Len(mres.a) : AtomAccepts(mres.a[i], mres.x[i])
        /\ mres.a = <<>> => (mres.IsMatch <=> mres.x = <<>>)

\* an actual vector with an extra trailing argument was refused
ExtraArgumentRefused ==
    /\ mres.op = "args"
    /\ mres.a = <<"a">>
    /\ mres.x = <<"a", "b">>
    /\ ~mres.IsMatch

\* the text of an entry before its first "=", and all the text after it
KeyOf(e) == SplitOnce(e)[1]
ValueOf(e) == SplitOnce(e)[2]

\* the environment has an entry with the key of e, ignoring case, and with
\* exactly the value of e
Provided(e, environ) ==
    \E i \in 1..Len(environ) :
        /\ ToUpper(KeyOf(environ[i])) = ToUpper(KeyOf(e))
        /\ ValueOf(environ[i]) = ValueOf(e)

\* C35: env.Match reports IsMatch iff for every required KEY=VALUE entry the
\* environment has an entry whose key equals KEY ignoring case and whose
\* value, the whole text after the first "=", equals VALUE exactly;
\* MatchCount is the number of required entries that are satisfied.
EnvMatchExact ==
    mres.op = "env" =>
        /\ mres.IsMatch <=> \A i \in 1..Len(mres.a) : Provided(mres.a[i], mres.x)
        /\ mres.MatchCount = Cardinality({i \in 1..Len(mres.a) : Provided(mres.a[i], mres.x)})

(***************************************************************************)
(* Properties of Proxy.Close against concurrent requests and StopServer    *)
(***************************************************************************)
\* C39: no Call is sent on the Proxy's channel after the channel has been
\* closed: a /calls/new request for the path delivers its Call before the
\* close or is refused because the Proxy is no longer registered; no
\* handler panics in its send.
NoSendOnClosedChannel == \A p \in Pids : hNew[p] # "panicked"

\* the deferred functions of the first Close have run
CloseCompletesStep ==
    (proxyPc = "closing" /\ proxyPc' = "closed") =>
        /\ last' = [op |-> "close", ret |-> "ok"]
        /\ ProxyPath \notin proxies'
        /\ ~tempDir'

\* C40: Proxy.Close completes, with the Proxy deregistered and its temp
\* directory removed, in any order relative to StopServer, also when the
\* server instance has been stopped and cleared before.
CloseCompletesAroundStop == [][CloseCompletesStep]_vars

====
